---- MODULE Spec2Model ----
(***************************************************************************)
(* Verification model of the FlexiAI event streaming and session core:     *)
(* RunThreadManager (thread registry), EventDispatcher, EventHandler,      *)
(* MultiChannelPublisher, the CLI and Quart chat controllers and the SSE   *)
(* delivery queue.                                                         *)
(*                                                                         *)
(* Python values are represented as follows: None is the string "None",    *)
(* remote thread ids are the naturals 1, 2, ... in the order the remote    *)
(* API hands them out, a thread_id that is None is 0 and a missing         *)
(* thread_id attribute is -1, dicts are functions with a partial domain.   *)
(***************************************************************************)
EXTENDS Integers, Sequences, FiniteSets, TLC

\* ------------------------------------------------------------------ bounds
NumCallers == 2      \* concurrent callers of get_or_create_thread
MaxCalls == 2        \* calls each caller makes
MaxChannels == 3     \* configured channels of a publisher under test
MaxPublishes == 2    \* publish() calls of a publisher under test
MaxStream == 3       \* events a session receives in all, from streams and the bus
MaxWebCycles == 2    \* user messages of one web session
MaxSize == 2         \* largest max_size of a RollingEventBuffer
MaxBufferCalls == 4   \* calls made on a RollingEventBuffer
MaxAddCalls == 3     \* calls of add_message_to_thread
MaxTokens == 7       \* max_tokens of return_context, scaled to the texts used
MaxToolCalls == 2    \* tool calls of one requires-action event
MaxCycles == 1        \* user messages of one session
NumSSEThreads == 2   \* threads calling SSEManager
MaxSSECalls == 4     \* calls of put_event and get_events

\* -------------------------------------------------------------- constants
None == "None"
Assistant == "asst"
RegistryUsers == {None, "", "u1"}
Callers == 1..NumCallers
NoContext == "NoContext"     \* has_request_context() is False
ChannelKinds == {"cli", "redis", "quart"}
NoneTid == 0                 \* a thread_id attribute that is None
AbsentTid == 0 - 1           \* an event without a thread_id attribute
Chunks == {"a", "b"}
CompletionTypes == {"message_completed", "thread.run.completed", "done"}

VARIABLES
    \* RunThreadManager
    active_threads,   \* dict key -> [thread_id, status]
    lock,             \* asyncio.Lock: 0 when free, else the caller holding it
    createCalls,      \* number of client.beta.threads.create() invocations so far
    \* one get_or_create_thread coroutine per caller
    pc,               \* where the caller's coroutine is suspended
    callKey,          \* the key the call built
    found,            \* thread id read from the cached record
    newThread,        \* thread id the remote create of this call makes
    ret,              \* value returned to the caller (0: none yet)
    calls,            \* calls made so far by the caller
    \* observation of the calls
    creates,          \* create invocations made by the caller's current call
    validated,        \* "none" | "ok" | "fail": outcome of the cached record's validation
    prevRet,          \* value the previous call for the key returned, 0 when there is
                      \* none or when another call for the key ran concurrently
    overlap,          \* callers whose call for the same key ran concurrently
    lastRet,          \* key -> value the most recently completed call returned
    \* MultiChannelPublisher and the channels
    channels,         \* get_active_channels(): the configured channel kinds, in order
    stdout,           \* text CLIChannel has printed
    sse,              \* SSEManager._queues: dict user_id -> deque of events
    pubCalls,         \* channels whose publish_event the last publish() called, in order
    pubRaisers,       \* channels whose publish_event raised during the last publish()
    pubRaised,        \* whether the last publish() let an exception escape
    publishes,        \* number of publish() calls made so far
    \* EventHandler
    current_user_id,  \* EventHandler.current_user_id
    event_queue,      \* EventHandler.event_queue: index in queues of the current Queue
    queues,           \* every asyncio.Queue made so far, as its pending events
    tasks,            \* the start_run and _handle_requires_action tasks made so far
    invoked,          \* handlers dispatch() invoked for the last stream event, in order
    \* CLIChatController
    cli,              \* [user_id, thread_id, pc, cycles, ret, bus, run]
    \* QuartChatController, its routes and the SSE generator of the session
    web,              \* [pc, cycle, event_buffer, ready, readied, gen, bus, arrived,
                      \*  placed, emitted]
    \* RollingEventBuffer
    buf,              \* [max_size, partial_chunks, final_messages, ...]
    mgr,              \* add_message_to_thread: [pc, thread_id, message,
                      \*   thread_message_tracking, messageCreates, outcome, ...]
    tools,            \* ToolCallExecutor and the tool loop: [agent_actions,
                      \*   invocations, outcome, result, outputs, ...]
    \* SSEManager and the threads calling it
    ssem,             \* [locks, queues, thr, calls, appended, delivered]
    \* one injection of user_id into an event
    inj               \* [op, heap, event, before, after, out]

regVars == <<active_threads, lock, createCalls, pc, callKey, found, newThread,
             ret, calls, creates, validated, prevRet, overlap, lastRet>>

pubVars == <<channels, stdout, sse, pubCalls, pubRaisers, pubRaised, publishes>>

ehVars == <<current_user_id, event_queue, queues, tasks, invoked>>
ctlVars == <<cli, web>>

libVars == <<buf, mgr, tools, ssem, inj>>
bufFrame == <<regVars, pubVars, ehVars, ctlVars, mgr, tools, ssem, inj>>
mgrFrame == <<regVars, pubVars, ehVars, ctlVars, buf, tools, ssem, inj>>
toolsFrame == <<regVars, pubVars, ehVars, ctlVars, buf, mgr, ssem, inj>>
ssemFrame == <<regVars, pubVars, ehVars, ctlVars, buf, mgr, tools, inj>>
injFrame == <<regVars, pubVars, ehVars, ctlVars, buf, mgr, tools, ssem>>

vars == <<regVars, pubVars, ehVars, ctlVars, libVars>>

regFrame == <<regVars, libVars>>

exceptReg == <<pubVars, ehVars, ctlVars, libVars>>
exceptPub == <<regFrame, ehVars, ctlVars>>
\* what a step of a run task leaves alone, besides the controllers
runFrame == <<regFrame, channels, pubRaisers>>

\* ===================================================== RunThreadManager
Truthy(u) == u # None /\ u # ""

\* key = f"{assistant_id}:{user_id}" if user_id else assistant_id
ThreadKey(assistant_id, user_id) ==
    IF Truthy(user_id) THEN assistant_id \o ":" \o user_id ELSE assistant_id

RegistryKeys == {ThreadKey(Assistant, u) : u \in RegistryUsers}

ThreadRecord(tid) == [thread_id |-> tid, status |-> "initialized"]

DictSet(d, k, v) == [x \in (DOMAIN d) \cup {k} |-> IF x = k THEN v ELSE d[x]]
DictDel(d, k) == [x \in (DOMAIN d) \ {k} |-> d[x]]

InFlight(p) == pc[p] \in {"waitlock", "validating", "creating", "storing"}

RegistryIdle ==
    /\ lock = 0
    /\ createCalls = 0
    /\ pc = [p \in Callers |-> "idle"]
    /\ callKey = [p \in Callers |-> Assistant]
    /\ found = [p \in Callers |-> 0]
    /\ newThread = [p \in Callers |-> 0]
    /\ ret = [p \in Callers |-> 0]
    /\ calls = [p \in Callers |-> 0]
    /\ creates = [p \in Callers |-> 0]
    /\ validated = [p \in Callers |-> "none"]
    /\ prevRet = [p \in Callers |-> 0]
    /\ overlap = [p \in Callers |-> {}]
    /\ lastRet = [k \in RegistryKeys |-> 0]

RegistryInit ==
    /\ active_threads = << >>
    /\ RegistryIdle

\* A caller's task calls get_or_create_thread(assistant_id, user_id): the key
\* is built and the coroutine reaches `async with self.lock`.
GetOrCreateThread(p, user_id) ==
    LET key == ThreadKey(Assistant, user_id)
        others == {q \in Callers \ {p} : InFlight(q) /\ callKey[q] = key}
    IN  /\ pc[p] = "idle"
        /\ calls[p] < MaxCalls
        /\ calls' = [calls EXCEPT ![p] = @ + 1]
        /\ callKey' = [callKey EXCEPT ![p] = key]
        /\ pc' = [pc EXCEPT ![p] = "waitlock"]
        /\ ret' = [ret EXCEPT ![p] = 0]
        /\ found' = [found EXCEPT ![p] = 0]
        /\ newThread' = [newThread EXCEPT ![p] = 0]
        /\ creates' = [creates EXCEPT ![p] = 0]
        /\ validated' = [validated EXCEPT ![p] = "none"]
        /\ prevRet' = [q \in Callers |->
                         IF q = p THEN (IF others = {} THEN lastRet[key] ELSE 0)
                         ELSE IF q \in others THEN 0
                         ELSE prevRet[q]]
        /\ overlap' = [q \in Callers |->
                         IF q = p THEN others
                         ELSE IF q \in others THEN overlap[q] \cup {p}
                         ELSE overlap[q] \ {p}]
        /\ UNCHANGED <<active_threads, lock, createCalls, lastRet>>
        /\ UNCHANGED exceptReg

\* The remote create request leaves: the coroutine suspends in
\* `await self.client.beta.threads.create()`, outside the lock. The remote
\* API numbers the threads in the order of the requests.
InvokeCreate(p) ==
    /\ pc' = [pc EXCEPT ![p] = "creating"]
    /\ createCalls' = createCalls + 1
    /\ creates' = [creates EXCEPT ![p] = @ + 1]
    /\ newThread' = [newThread EXCEPT ![p] = createCalls + 1]

\* `async with self.lock:` entered: the lookup, up to the first suspension
\* (the validation of a cached record under the lock, or the remote create
\* after the lock is released).
LockedLookup(p) ==
    /\ pc[p] = "waitlock"
    /\ lock = 0
    /\ IF callKey[p] \in DOMAIN active_threads
       THEN /\ lock' = p
            /\ found' = [found EXCEPT ![p] = active_threads[callKey[p]].thread_id]
            /\ pc' = [pc EXCEPT ![p] = "validating"]
            /\ UNCHANGED <<createCalls, creates, newThread>>
       ELSE /\ InvokeCreate(p)
            /\ UNCHANGED <<lock, found>>
    /\ UNCHANGED <<active_threads, callKey, ret, calls, validated,
                   prevRet, overlap, lastRet>>
    /\ UNCHANGED exceptReg

\* A return that prefers the thread id found in the cache.
ReturnThread_Found(p, tid) ==
    /\ ret' = [ret EXCEPT ![p] = IF found[p] # 0 THEN found[p] ELSE tid]
    /\ lastRet' = [lastRet EXCEPT ![callKey[p]] = IF found[p] # 0 THEN found[p] ELSE tid]

\* The call returns thread_id to its caller.
ReturnThread(p, tid) ==
    /\ ret' = [ret EXCEPT ![p] = tid]
    /\ lastRet' = [lastRet EXCEPT ![callKey[p]] = tid]

\* ValidateReturn with the cache ignored: a valid record is replaced as well.
ValidateReturn_Recreates(p, ok) ==
    /\ pc[p] = "validating"
    /\ lock' = 0
    /\ validated' = [validated EXCEPT ![p] = IF ok THEN "ok" ELSE "fail"]
    /\ active_threads' = DictDel(active_threads, callKey[p])
    /\ InvokeCreate(p)
    /\ UNCHANGED <<ret, lastRet>>
    /\ UNCHANGED <<callKey, found, calls, prevRet, overlap>>
    /\ UNCHANGED exceptReg

\* `await self._validate_thread(thread_id)` resumes: retrieve succeeded (ok)
\* or raised. A valid record is returned; an invalid one is deleted, the lock
\* is released and the remote create is invoked.
ValidateReturn(p, ok) ==
    /\ pc[p] = "validating"
    /\ lock' = 0
    /\ IF ok
       THEN /\ validated' = [validated EXCEPT ![p] = "ok"]
            /\ pc' = [pc EXCEPT ![p] = "done"]
            /\ ReturnThread(p, found[p])
            /\ UNCHANGED <<active_threads, createCalls, creates, newThread>>
       ELSE /\ validated' = [validated EXCEPT ![p] = "fail"]
            /\ active_threads' = DictDel(active_threads, callKey[p])
            /\ InvokeCreate(p)
            /\ UNCHANGED <<ret, lastRet>>
    /\ UNCHANGED <<callKey, found, calls, prevRet, overlap>>
    /\ UNCHANGED exceptReg

\* `async with self.lock: self.active_threads[key] = {...}` and the return.
StoreRecord(p, tid) ==
    /\ active_threads' = DictSet(active_threads, callKey[p], ThreadRecord(tid))
    /\ pc' = [pc EXCEPT ![p] = "done"]
    /\ ReturnThread(p, tid)

\* A CreateReturn that answers a failed create with another create.
CreateReturn_Retries(p, ok) ==
    /\ pc[p] = "creating"
    /\ IF ok
       THEN /\ IF lock = 0
               THEN StoreRecord(p, newThread[p])
               ELSE /\ pc' = [pc EXCEPT ![p] = "storing"]
                    /\ UNCHANGED <<active_threads, ret, lastRet>>
            /\ UNCHANGED <<newThread, createCalls, creates>>
       ELSE /\ InvokeCreate(p)
            /\ UNCHANGED <<active_threads, ret, lastRet>>
    /\ UNCHANGED <<lock, callKey, found, calls, validated, prevRet, overlap>>
    /\ UNCHANGED exceptReg

\* The remote create resumes: with a fresh thread (ok), which is stored at
\* once when the lock is free and after waiting for it otherwise; or with an
\* error, which is raised as RuntimeError.
CreateReturn(p, ok) ==
    /\ pc[p] = "creating"
    /\ IF ok
       THEN IF lock = 0
            THEN StoreRecord(p, newThread[p])
            ELSE /\ pc' = [pc EXCEPT ![p] = "storing"]
                 /\ UNCHANGED <<active_threads, ret, lastRet>>
       ELSE /\ pc' = [pc EXCEPT ![p] = "raised"]
            /\ UNCHANGED <<active_threads, ret, lastRet>>
    /\ UNCHANGED <<newThread, lock, createCalls, callKey, found, calls, creates, validated,
                   prevRet, overlap>>
    /\ UNCHANGED exceptReg

\* The lock is released by its holder: the waiting store proceeds.
StoreAfterWait(p) ==
    /\ pc[p] = "storing"
    /\ lock = 0
    /\ StoreRecord(p, newThread[p])
    /\ UNCHANGED <<lock, createCalls, callKey, found, newThread, calls, creates,
                   validated, prevRet, overlap>>
    /\ UNCHANGED exceptReg

\* The caller has its result (or its exception) and may call again.
CallerContinues(p) ==
    /\ pc[p] \in {"done", "raised"}
    /\ calls[p] < MaxCalls
    /\ pc' = [pc EXCEPT ![p] = "idle"]
    /\ UNCHANGED <<active_threads, lock, createCalls, callKey, found, newThread,
                   ret, calls, creates, validated, prevRet, overlap, lastRet>>
    /\ UNCHANGED exceptReg

RegistryNext ==
    \/ \E p \in Callers, u \in RegistryUsers : GetOrCreateThread(p, u)
    \/ \E p \in Callers : LockedLookup(p)
    \/ \E p \in Callers, ok \in BOOLEAN : ValidateReturn(p, ok)
    \/ \E p \in Callers, ok \in BOOLEAN : CreateReturn(p, ok)
    \/ \E p \in Callers : StoreAfterWait(p)
    \/ \E p \in Callers : CallerContinues(p)


\* ================================================================ events
\* An event as the handlers build it: {"event_type", "data": {"user_id"},
\* "content"}; run is the run whose stream produced it (0: none).
Event(et, uid, content, cycle) ==
    [event_type |-> et, user_id |-> uid, content |-> content, cycle |-> cycle,
     message_id |-> 0]

RECURSIVE JoinChunks(_)
\* for chunk in content: print(chunk, end="")
JoinChunks(content) ==
    IF content = << >> THEN "" ELSE Head(content) \o JoinChunks(Tail(content))

\* cls._queues[user_id].append(event) on a defaultdict(deque)
SSEPut(q, user_id, event) ==
    DictSet(q, user_id, IF user_id \in DOMAIN q THEN Append(q[user_id], event) ELSE <<event>>)

\* ================================================== channels, publisher
\* A CLIChannel that prints only the first chunk of `content`.
CLIChannelPublish_FirstChunk(event, out) ==
    [out EXCEPT !.stdout = IF out.stdout = "" THEN JoinChunks(event.content) ELSE @]

\* A CLIChannel that writes before what was printed.
CLIChannelPublish_Prepend(event, out) ==
    [out EXCEPT !.stdout = JoinChunks(event.content) \o @]

\* CLIChannel.publish_event: prints the chunks of `content`; without content
\* it prints event_dict.get("event", ""), which the events built here lack.
CLIChannelPublish(event, out) ==
    [out EXCEPT !.stdout = @ \o JoinChunks(event.content)]

\* RedisChannel.publish_event: serializes and hands the event to the broker;
\* nothing of this process changes.
RedisChannelPublish(event, out) == out

\* QuartChannel.publish_event: a copy of the event gets data.user_id from the
\* request context when it has none; without a user id the event is dropped,
\* otherwise it is put on that user's SSE queue.
QuartChannelPublish(event, ctx, out) ==
    LET user_id == IF ~Truthy(event.user_id) /\ ctx # NoContext /\ Truthy(ctx)
                   THEN ctx ELSE event.user_id
    IN  IF ~Truthy(user_id) THEN out
        ELSE [out EXCEPT !.sse = SSEPut(@, user_id, [event EXCEPT !.user_id = user_id])]

ChannelPublishEvent(kind, event, ctx, out) ==
    CASE kind = "cli" -> CLIChannelPublish(event, out)
      [] kind = "redis" -> RedisChannelPublish(event, out)
      [] kind = "quart" -> QuartChannelPublish(event, ctx, out)

RECURSIVE PublishFrom_NoCatch(_, _, _, _, _, _)
\* The loop of publish() without its try/except: the first exception escapes.
PublishFrom_NoCatch(i, chs, event, raisers, ctx, out) ==
    IF i > Len(chs) THEN out
    ELSE LET called == [out EXCEPT !.calls = Append(@, i)]
         IN  IF i \in raisers
             THEN [called EXCEPT !.raised = TRUE]
             ELSE PublishFrom_NoCatch(i + 1, chs, event, raisers, ctx,
                                      ChannelPublishEvent(chs[i], event, ctx, called))

RECURSIVE PublishFrom(_, _, _, _, _, _)
\* MultiChannelPublisher.publish, from the i-th channel on:
\*   for channel in self.channels:
\*       try: channel.publish_event(event_data)
\*       except Exception: logger.error(...)
\* raisers are the channels whose publish_event raises in this call.
PublishFrom(i, chs, event, raisers, ctx, out) ==
    IF i > Len(chs) THEN out
    ELSE LET called == [out EXCEPT !.calls = Append(@, i)]
         IN  PublishFrom(i + 1, chs, event, raisers, ctx,
                         IF i \in raisers THEN called
                         ELSE ChannelPublishEvent(chs[i], event, ctx, called))

\* The state of the sinks and the record of one publish() call.
PublishResult(event, raisers, ctx, so, sq) ==
    PublishFrom(1, channels, event, raisers, ctx,
                [stdout |-> so, sse |-> sq, calls |-> << >>, raised |-> FALSE])

\* MultiChannelPublisher().publish(event_type, event) as a step of its own.
Publish(event, raisers, ctx) ==
    LET r == PublishResult(event, raisers, ctx, stdout, sse)
    IN  /\ publishes < MaxPublishes
        /\ stdout' = r.stdout
        /\ sse' = r.sse
        /\ pubCalls' = r.calls
        /\ pubRaised' = r.raised
        /\ pubRaisers' = raisers
        /\ publishes' = publishes + 1
        /\ UNCHANGED channels
        /\ UNCHANGED exceptPub

PublisherIdle ==
    /\ stdout = ""
    /\ sse = << >>
    /\ pubCalls = << >>
    /\ pubRaisers = {}
    /\ pubRaised = FALSE
    /\ publishes = 0

ChannelConfigs == UNION {[1..n -> ChannelKinds] : n \in 0..MaxChannels}

PublishedEvents ==
    {Event("message_delta", "u1", <<"a">>, 0),
     Event("message_delta", "unknown", <<"b">>, 0),
     Event("message_completed", "", << >>, 0),
     Event("thread.run.completed", None, << >>, 0)}



\* ======================================================= EventDispatcher
\* EventDispatcher.event_map: wire event type -> EventHandler method
EventMap ==
    ("thread.created" :> "_handle_thread_created") @@
    ("thread.run.created" :> "_handle_run_created") @@
    ("thread.run.queued" :> "_handle_run_queued") @@
    ("thread.run.in_progress" :> "_handle_run_in_progress") @@
    ("thread.run.requires_action" :> "_handle_run_requires_action") @@
    ("thread.run.completed" :> "_handle_run_completed") @@
    ("thread.run.incomplete" :> "_handle_run_incomplete") @@
    ("thread.run.failed" :> "_handle_run_failed") @@
    ("thread.run.cancelling" :> "_handle_run_cancelling") @@
    ("thread.run.cancelled" :> "_handle_run_cancelled") @@
    ("thread.run.expired" :> "_handle_run_expired") @@
    ("thread.run.step.created" :> "_handle_run_step_created") @@
    ("thread.run.step.in_progress" :> "_handle_run_step_in_progress") @@
    ("thread.run.step.delta" :> "_handle_run_step_delta") @@
    ("thread.run.step.completed" :> "_handle_run_step_completed") @@
    ("thread.run.step.failed" :> "_handle_run_step_failed") @@
    ("thread.run.step.cancelled" :> "_handle_run_step_cancelled") @@
    ("thread.run.step.expired" :> "_handle_run_step_expired") @@
    ("thread.message.created" :> "_handle_message_created") @@
    ("thread.message.in_progress" :> "_handle_message_in_progress") @@
    ("thread.message.delta" :> "_handle_message_delta") @@
    ("thread.message.completed" :> "_handle_message_completed") @@
    ("thread.message.incomplete" :> "_handle_message_incomplete") @@
    ("tool_call_delta" :> "_handle_delta") @@
    ("message_delta" :> "_handle_delta") @@
    ("error" :> "_handle_error_event") @@
    ("done" :> "_handle_done_event")

\* self.event_map.get(event_type)
EventMapGet(event_type) ==
    IF event_type \in DOMAIN EventMap THEN EventMap[event_type] ELSE None

\* dispatch() with the fallback left out: an unknown type reaches no handler.
dispatch_NoFallback(event_type) ==
    LET handler == EventMapGet(event_type)
    IN  IF handler # None THEN <<handler>> ELSE << >>

\* EventDispatcher.dispatch: the handlers it invokes for event_type, in order.
dispatch(event_type) ==
    LET handler == EventMapGet(event_type)
    IN  IF handler # None THEN <<handler>> ELSE <<"_handle_unhandled_event">>

\* ====================================================== ToolCallExecutor
\* Texts are sequences of pieces: characters, and words written as one piece.
SpecialToken == "<|endoftext|>"

\* Values a tool returns: a text, or an object json.dumps cannot serialize.
ToolResults ==
    {[json |-> TRUE, text |-> t] :
        t \in {<< >>, <<"a", "b">>, <<"a", "a", "a">>, <<SpecialToken, "a", "a">>}}
    \cup {[json |-> FALSE, text |-> << >>]}

\* What a registered callable does when it is invoked.
ToolBehaviours ==
    {[raises |-> FALSE, value |-> r] : r \in ToolResults}
    \cup {[raises |-> TRUE, value |-> [json |-> TRUE, text |-> <<"b", "o", "o", "m">>]]}

\* Names the API asks for; "t3" is never registered.
ToolNames == {"t1", "t2", "t3"}

\* The callable registered under a name.
Callable(name) == "f_" \o name

\* Registries of agent actions.
AgentActions == {[n \in S |-> Callable(n)] : S \in {{}, {"t1"}, {"t1", "t2"}}}

\* The tokenizer and runtime conditions of one return_context call.
ContextEnvs ==
    [encoding : {"model", "fallback", "unavailable"}, decode_fails : BOOLEAN]

\* An execute that turns the callable's exception into a result.
execute_Swallow(agent_actions, tool_name, behaviour) ==
    IF tool_name \notin DOMAIN agent_actions
    THEN [raised |-> TRUE, exc |-> "ValueError",
          value |-> [json |-> TRUE, text |-> <<"Tool", tool_name, "not found">>],
          invoked |-> << >>]
    ELSE [raised |-> FALSE, exc |-> "none", value |-> behaviour.value,
          invoked |-> <<agent_actions[tool_name]>>]

\* ToolCallExecutor.execute: what the call does, given what the callable does
\* if it is invoked.
execute(agent_actions, tool_name, behaviour) ==
    IF tool_name \notin DOMAIN agent_actions
    THEN [raised |-> TRUE, exc |-> "ValueError",
          value |-> [json |-> TRUE, text |-> <<"Tool", tool_name, "not found">>],
          invoked |-> << >>]
    ELSE IF behaviour.raises
         THEN [raised |-> TRUE, exc |-> "ToolError", value |-> behaviour.value,
               invoked |-> <<agent_actions[tool_name]>>]
         ELSE [raised |-> FALSE, exc |-> "none", value |-> behaviour.value,
               invoked |-> <<agent_actions[tool_name]>>]

RECURSIVE Encode(_)
\* enc.encode: adjacent "a", "b" merge into the token "ab", every other piece
\* is a token of its own.
Encode(text) ==
    IF text = << >> THEN << >>
    ELSE IF Len(text) >= 2 /\ text[1] = "a" /\ text[2] = "b"
         THEN <<"ab">> \o Encode(SubSeq(text, 3, Len(text)))
         ELSE <<Head(text)>> \o Encode(Tail(text))

RECURSIVE Decode(_)
\* enc.decode
Decode(tokens) ==
    IF tokens = << >> THEN << >>
    ELSE (IF Head(tokens) = "ab" THEN <<"a", "b">> ELSE <<Head(tokens)>>)
         \o Decode(Tail(tokens))

\* enc.encode raises on text that holds a special token.
EncodeRaises(text) == \E i \in 1..Len(text) : text[i] = SpecialToken

\* tokens[-n:] and text[-n:]
Tail_(seq, n) == IF Len(seq) <= n THEN seq ELSE SubSeq(seq, Len(seq) - n + 1, Len(seq))

\* return_context
return_context(text, max_tokens, env) ==
    IF env.encoding = "unavailable" \/ EncodeRaises(text) THEN text
    ELSE IF Len(Encode(text)) <= max_tokens THEN text
    ELSE IF env.decode_fails THEN Tail_(text, max_tokens * 4)
    ELSE Decode(Tail_(Encode(text), max_tokens))

\* json.dumps(payload, ensure_ascii=False) of prepare_tool_output's payload
\* (result is serializable).
Dumps(success, result) ==
    IF success
    THEN <<"{", "true", "Success", "\"">> \o result.text \o <<"\"", "}">>
    ELSE <<"{", "false", "\"">> \o result.text \o <<"\"", "null", "}">>

\* ToolCallExecutor.prepare_tool_output: the dict returned, or the TypeError
\* of json.dumps.
prepare_tool_output(call_id, result, success, env) ==
    IF success /\ ~result.json
    THEN [raised |-> TRUE, tool_call_id |-> call_id, output |-> << >>]
    ELSE [raised |-> FALSE, tool_call_id |-> call_id,
          output |-> return_context(Dumps(success, result), MaxTokens, env)]

\* Argument strings of a tool call and json.loads of them: an object, or an
\* exception.
ArgumentTexts == {"{}", "{\"x\": 1}", "{bad"}
LoadsRaises(arguments) == arguments = "{bad"
Loads(arguments) == IF arguments = "{\"x\": 1}" THEN {"x"} ELSE {}

\* Tool calls of a requires-action event, each with what its callable does
\* and the conditions of its return_context call.
ToolCalls(id) ==
    [id : {id}, name : ToolNames, arguments : {"{}", "{bad"},
     behaviour : {b \in ToolBehaviours : b.value.text \in {<< >>, <<"b", "o", "o", "m">>}},
     env : {[encoding |-> "model", decode_fails |-> FALSE]}]

\* The ids of the tool calls of one event, in the order the API lists them.
CallIds == [i \in 1..(MaxToolCalls + 1) |-> "c" \o ToString(i)]

\* The for loop of _handle_requires_action over one tool call: what is
\* appended to outputs, the status tracked, the callable invoked with its
\* keyword arguments.
ToolCallStep(agent_actions, tc) ==
    LET args == IF LoadsRaises(tc.arguments) THEN {} ELSE Loads(tc.arguments)
        run == execute(agent_actions, tc.name, tc.behaviour)
        success == ~run.raised
        out == prepare_tool_output(tc.id, run.value, success, tc.env)
    IN  [outputs |-> IF out.raised THEN << >>
                     ELSE <<[tool_call_id |-> out.tool_call_id, output |-> out.output]>>,
         tracked |-> <<[id |-> tc.id, status |-> "Pending"],
                       [id |-> tc.id, status |-> IF success THEN "Completed" ELSE "Failed"]>>,
         invoked |-> [i \in 1..Len(run.invoked) |->
                         [callable |-> run.invoked[i], kwargs |-> args]]]

RECURSIVE ToolLoop(_, _, _)
\* `for tc in tool_calls:` of _handle_requires_action
ToolLoop(agent_actions, tool_calls, acc) ==
    IF tool_calls = << >> THEN acc
    ELSE LET step == ToolCallStep(agent_actions, Head(tool_calls))
         IN  ToolLoop(agent_actions, Tail(tool_calls),
                      [outputs |-> acc.outputs \o step.outputs,
                       tracked |-> acc.tracked \o step.tracked,
                       invoked |-> acc.invoked \o step.invoked])

\* The executor after __init__(agent_actions), with the record of its calls.
NewTools(agent_actions) ==
    [agent_actions |-> agent_actions,
     op |-> "none",                \* the call made on it
     invocations |-> << >>,        \* callables invoked, with keyword arguments
     outcome |-> [raised |-> FALSE, exc |-> "none",
                  value |-> [json |-> TRUE, text |-> << >>]],
     raw_json |-> << >>,
     out |-> [raised |-> FALSE, tool_call_id |-> "", output |-> << >>],
     tool_calls |-> << >>,
     outputs |-> << >>,            \* submitted to the run
     tracked |-> << >>]

\* A call of execute(tool_name, **arguments).
Execute(tool_name, arguments, behaviour) ==
    /\ tools.op = "none"
    /\ LET run == execute(tools.agent_actions, tool_name, behaviour)
       IN  tools' = [tools EXCEPT
                       !.op = "execute",
                       !.invocations = @ \o [i \in 1..Len(run.invoked) |->
                                               [callable |-> run.invoked[i],
                                                kwargs |-> arguments]],
                       !.outcome = [raised |-> run.raised, exc |-> run.exc,
                                    value |-> run.value]]
    /\ UNCHANGED toolsFrame

\* A call of prepare_tool_output(tool_call, result, success).
PrepareToolOutput(call_id, result, success, env) ==
    /\ tools.op = "none"
    /\ tools' = [tools EXCEPT
                   !.op = "prepare",
                   !.raw_json = IF success /\ ~result.json THEN << >>
                                ELSE Dumps(success, result),
                   !.out = prepare_tool_output(call_id, result, success, env)]
    /\ UNCHANGED toolsFrame

\* _handle_requires_action up to the submission of the outputs (the stream
\* that follows is ActionTask's).
HandleToolCalls(tool_calls) ==
    /\ tools.op = "none"
    /\ LET done == ToolLoop(tools.agent_actions, tool_calls,
                            [outputs |-> << >>, tracked |-> << >>, invoked |-> << >>])
       IN  tools' = [tools EXCEPT
                       !.op = "requires_action",
                       !.tool_calls = tool_calls,
                       !.invocations = @ \o done.invoked,
                       !.outputs = done.outputs,
                       !.tracked = @ \o done.tracked]
    /\ UNCHANGED toolsFrame

\* No executor in use.
ToolsIdle == tools = NewTools(<< >>)

\* ========================================================== EventHandler
\* A wire event of the remote stream: event.event, event.thread_id,
\* event.data.thread_id, the text of its delta block, and whether its data
\* carries required_action.submit_tool_outputs.
Wire(et, tid, dtid, chunk, required) ==
    [event |-> et, thread_id |-> tid, data_thread_id |-> dtid, chunk |-> chunk,
     required |-> required]

\* RunThreadManager.track_assistant_in_thread: the scoped record when there
\* is one, else the assistant-only record, else None (the empty set here).
track_assistant_in_thread(assistant_id, user_id) ==
    IF Truthy(user_id) /\ (assistant_id \o ":" \o user_id) \in DOMAIN active_threads
    THEN {active_threads[assistant_id \o ":" \o user_id]}
    ELSE IF assistant_id \in DOMAIN active_threads
         THEN {active_threads[assistant_id]}
         ELSE {}

\* _validate_thread without the registry lookup.
_validate_thread_NoRegistry(event_thread_id, expected_thread_id, assistant_id) ==
    LET tid == IF event_thread_id = NoneTid THEN expected_thread_id ELSE event_thread_id
    IN  tid = expected_thread_id

\* EventHandler._validate_thread
_validate_thread(event_thread_id, expected_thread_id, assistant_id) ==
    LET tid == IF event_thread_id = NoneTid THEN expected_thread_id ELSE event_thread_id
        info == track_assistant_in_thread(assistant_id, current_user_id)
    IN  IF tid # expected_thread_id THEN FALSE
        ELSE IF info = {} \/ (\E r \in info : r.thread_id # tid) THEN FALSE
        ELSE TRUE

\* getattr(x, "thread_id", default)
GetAttrTid(tid, default) == IF tid = AbsentTid THEN default ELSE tid

\* user = getattr(snapshot, "user_id", None) or self.current_user_id or "unknown"
DeltaUser == IF Truthy(current_user_id) THEN current_user_id ELSE "unknown"

NoEffect == [pub |-> << >>, put |-> << >>, spawn |-> FALSE]

\* What the handler does with event e of a stream of cycle `cycle` whose thread
\* is thread_id: the events it publishes, the events it puts on
\* self.event_queue, and whether it creates a _handle_requires_action task.
HandlerEffect(handler, e, thread_id, cycle) ==
    CASE handler = "_handle_message_delta" ->
           IF e.chunk = "" THEN NoEffect
           ELSE [NoEffect EXCEPT !.pub = <<Event("message_delta", DeltaUser, <<e.chunk>>, cycle)>>]
      [] handler = "_handle_run_step_delta" ->
           IF e.chunk = "" THEN NoEffect
           ELSE [NoEffect EXCEPT !.pub = <<Event("message_delta", DeltaUser, <<e.chunk>>, cycle)>>]
      [] handler = "_handle_message_completed" ->
           LET evt == Event("message_completed", current_user_id, << >>, cycle)
           IN  [NoEffect EXCEPT !.pub = <<evt>>, !.put = <<evt>>]
      [] handler = "_handle_run_completed" ->
           LET evt == Event("thread.run.completed", current_user_id, << >>, cycle)
           IN  [NoEffect EXCEPT !.pub = <<evt>>, !.put = <<evt>>]
      [] handler = "_handle_done_event" ->
           [NoEffect EXCEPT !.put = <<Event("done", current_user_id, << >>, cycle)>>]
      [] handler = "_handle_run_requires_action" ->
           [NoEffect EXCEPT !.spawn =
               _validate_thread(GetAttrTid(e.data_thread_id, NoneTid), thread_id, Assistant)]
      [] OTHER -> NoEffect

RunTask(thread_id, user_id, ctx, cycle) ==
    [kind |-> "run", st |-> "scheduled", thread_id |-> thread_id, user_id |-> user_id,
     ctx |-> ctx, n |-> 0, cycle |-> cycle, required |-> FALSE, shape |-> "deltas",
     sent |-> << >>, pubd |-> << >>, trace |-> << >>]

ActionTask(thread_id, ctx, cycle, required) ==
    [kind |-> "action", st |-> "scheduled", thread_id |-> thread_id, user_id |-> None,
     ctx |-> ctx, n |-> 0, cycle |-> cycle, required |-> required, shape |-> "other",
     sent |-> << >>, pubd |-> << >>, trace |-> << >>]

RECURSIVE HandlersEffect(_, _, _, _)
\* The handlers hs run one after the other on event e.
HandlersEffect(hs, e, thread_id, cycle) ==
    IF hs = << >> THEN NoEffect
    ELSE LET first == HandlerEffect(Head(hs), e, thread_id, cycle)
             rest == HandlersEffect(Tail(hs), e, thread_id, cycle)
         IN  [pub |-> first.pub \o rest.pub, put |-> first.put \o rest.put,
              spawn |-> first.spawn \/ rest.spawn]

RECURSIVE Streamed(_)
\* Number of events the remote streams of the tasks ts have yielded.
Streamed(ts) == IF ts = << >> THEN 0 ELSE Head(ts).n + Streamed(Tail(ts))

\* Number of events the session has received from streams and the bus.
Received == Streamed(tasks) + cli.bus + web.bus

RECURSIVE DeltaChunks(_)
\* The text chunks of the message_delta events among evs, in order.
DeltaChunks(evs) ==
    IF evs = << >> THEN << >>
    ELSE (IF Head(evs).event_type = "message_delta" THEN Head(evs).content ELSE << >>)
         \o DeltaChunks(Tail(evs))

RECURSIVE PublishAll(_, _, _)
\* MultiChannelPublisher().publish(...) for each event of evs, in order; the
\* channels the controllers configure catch their own exceptions.
PublishAll(evs, ctx, out) ==
    IF evs = << >> THEN out
    ELSE PublishAll(Tail(evs), ctx,
                    PublishFrom(1, channels, Head(evs), {}, ctx,
                                [out EXCEPT !.calls = << >>]))

\* dispatch() invoked the handlers hs on event e of task t; base is tasks
\* with the step of t accounted for.
RunHandler(t, hs, e, base) ==
    LET eff == HandlersEffect(hs, e, tasks[t].thread_id, tasks[t].cycle)
        out == PublishAll(eff.pub, tasks[t].ctx,
                          [stdout |-> stdout, sse |-> sse, calls |-> pubCalls,
                           raised |-> pubRaised])
    IN  /\ invoked' = hs
        /\ stdout' = out.stdout
        /\ sse' = out.sse
        /\ pubCalls' = out.calls
        /\ pubRaised' = out.raised
        /\ publishes' = publishes + Len(eff.pub)
        /\ queues' = IF eff.put = << >> THEN queues
                     ELSE [queues EXCEPT ![event_queue] = @ \o eff.put]
        /\ LET done == [base EXCEPT ![t].pubd = @ \o DeltaChunks(eff.pub)]
           IN  tasks' = IF eff.spawn
                        THEN Append(done, ActionTask(tasks[t].thread_id, tasks[t].ctx,
                                                     tasks[t].cycle, e.required))
                        ELSE done
        /\ UNCHANGED <<current_user_id, event_queue>>

\* The event is dropped: `continue`.
DropEvent(base) ==
    /\ invoked' = << >>
    /\ tasks' = base
    /\ UNCHANGED <<stdout, sse, pubCalls, pubRaised, publishes, queues,
                   current_user_id, event_queue>>

\* Condition (a) and (b) of the thread check, as the specification states it:
\* the event's thread (the expected one when the event carries none) is the
\* expected thread, and the registry record of (assistant, current_user_id),
\* scoped key first, holds that thread.
RegistryRecordFor(user_id) ==
    IF Truthy(user_id) /\ ThreadKey(Assistant, user_id) \in DOMAIN active_threads
    THEN ThreadKey(Assistant, user_id)
    ELSE Assistant

PassesThreadCheck(event_tid, expected) ==
    /\ event_tid \in {AbsentTid, NoneTid, expected}
    /\ RegistryRecordFor(current_user_id) \in DOMAIN active_threads
    /\ active_threads[RegistryRecordFor(current_user_id)].thread_id = expected

\* What the primary stream of a run has yielded so far: "deltas" (text deltas
\* only, all passing the thread check), "completed" (such deltas and then a
\* completion-class event passing it), "other".
NextShape(task, e) ==
    IF ~PassesThreadCheck(e.thread_id, task.thread_id) \/ task.shape # "deltas" THEN "other"
    ELSE IF e.event = "thread.message.delta" /\ e.chunk # "" THEN "deltas"
    ELSE IF e.event \in {"thread.message.completed", "thread.run.completed", "done"}
         THEN "completed"
    ELSE "other"

\* start_run, first step: self.current_user_id = user_id, then the remote run
\* is requested (`await self.run_thread_manager.start_run(...)`).
RunBegins(t) ==
    /\ t \in 1..Len(tasks)
    /\ tasks[t].kind = "run" /\ tasks[t].st = "scheduled"
    /\ current_user_id' = tasks[t].user_id
    /\ tasks' = [tasks EXCEPT ![t].st = "opening"]
    /\ UNCHANGED <<event_queue, queues, invoked, pubVars, regFrame, ctlVars>>

\* The remote run is created and its stream opens (ok), or the request
\* raises: the exception is logged and start_run returns.
RunOpens(t, ok) ==
    /\ t \in 1..Len(tasks)
    /\ tasks[t].kind = "run" /\ tasks[t].st = "opening"
    /\ tasks' = [tasks EXCEPT ![t].st = IF ok THEN "streaming" ELSE "crashed"]
    /\ UNCHANGED <<current_user_id, event_queue, queues, invoked, pubVars,
                   regFrame, ctlVars>>

\* start_run, one iteration of `async for event in run_stream`.
RunStreamEvent(t, e) ==
    /\ t \in 1..Len(tasks)
    /\ tasks[t].kind = "run" /\ tasks[t].st = "streaming"
    /\ Received < MaxStream
    /\ LET task == tasks[t]
           evt_tid == GetAttrTid(e.thread_id, task.thread_id)
           base == [tasks EXCEPT ![t].n = @ + 1,
                                 ![t].shape = NextShape(task, e),
                                 ![t].sent = IF NextShape(task, e) = "deltas"
                                             THEN Append(@, e.chunk) ELSE @]
       IN  IF ~_validate_thread(evt_tid, task.thread_id, Assistant)
           THEN DropEvent(base)
           ELSE RunHandler(t, dispatch(e.event), e, base)
    /\ UNCHANGED <<runFrame, ctlVars>>

\* The agent actions the controller registers with the handler's executor.
HandlerActions == [n \in {"t1"} |-> Callable(n)]

\* required_action.submit_tool_outputs.tool_calls of a requires-action event:
\* a registered tool that returns, and an unregistered one with bad arguments.
RequiredToolCalls ==
    <<[id |-> CallIds[1], name |-> "t1", arguments |-> "{}",
       behaviour |-> [raises |-> FALSE, value |-> [json |-> TRUE, text |-> << >>]],
       env |-> [encoding |-> "model", decode_fails |-> FALSE]],
      [id |-> CallIds[2], name |-> "t3", arguments |-> "{bad",
       behaviour |-> [raises |-> FALSE, value |-> [json |-> TRUE, text |-> << >>]],
       env |-> [encoding |-> "model", decode_fails |-> FALSE]]>>

\* The call of submit_tool_outputs_stream, as an entry of a task's trace.
SubmitCall(outputs) == [id |-> "submit_tool_outputs_stream", status |-> ToString(Len(outputs))]

\* A handler that submits the outputs before it executes the tool calls.
RequiresActionTrace_SubmitFirst(agent_actions, tool_calls) ==
    <<SubmitCall(<< >>)>>
    \o ToolLoop(agent_actions, tool_calls,
                [outputs |-> << >>, tracked |-> << >>, invoked |-> << >>]).tracked

\* _handle_requires_action from the tool loop to the submission: the statuses
\* tracked by the loop, then the one call of submit_tool_outputs_stream.
RequiresActionTrace(agent_actions, tool_calls) ==
    LET looped == ToolLoop(agent_actions, tool_calls,
                           [outputs |-> << >>, tracked |-> << >>, invoked |-> << >>])
    IN  looped.tracked \o <<SubmitCall(looped.outputs)>>

\* _handle_requires_action up to `async with mgr as stream`: without a
\* required_action it returns; otherwise the tool calls are executed and the
\* outputs submitted, which opens the nested stream (ok) or raises.
ActionTaskRuns(t, ok) ==
    /\ t \in 1..Len(tasks)
    /\ tasks[t].kind = "action" /\ tasks[t].st = "scheduled"
    /\ tasks' = [tasks EXCEPT ![t].st = IF ~tasks[t].required THEN "over"
                                        ELSE IF ok THEN "streaming" ELSE "crashed",
                              ![t].trace =
                                  IF ~tasks[t].required THEN << >>
                                  ELSE RequiresActionTrace(HandlerActions, RequiredToolCalls)]
    /\ UNCHANGED <<current_user_id, event_queue, queues, invoked, pubVars,
                   regFrame, ctlVars>>

\* _handle_requires_action, one iteration of `async for ev in stream`.
NestedStreamEvent(t, e) ==
    /\ t \in 1..Len(tasks)
    /\ tasks[t].kind = "action" /\ tasks[t].st = "streaming"
    /\ Received < MaxStream
    /\ RunHandler(t, dispatch(e.event), e, [tasks EXCEPT ![t].n = @ + 1])
    /\ UNCHANGED <<runFrame, ctlVars>>

\* The stream is exhausted: the loop and the coroutine end.
StreamEnds(t) ==
    /\ t \in 1..Len(tasks)
    /\ tasks[t].st = "streaming"
    /\ tasks' = [tasks EXCEPT ![t].st = "over"]
    /\ UNCHANGED <<current_user_id, event_queue, queues, invoked, pubVars,
                   regFrame, ctlVars>>

\* A failure that puts an error event on the queue.
StreamRaises_EnqueuesError(t) ==
    /\ t \in 1..Len(tasks)
    /\ tasks[t].st = "streaming"
    /\ tasks' = [tasks EXCEPT ![t].st = "crashed"]
    /\ queues' = [queues EXCEPT ![event_queue] =
                     Append(@, Event("error", current_user_id, << >>, tasks[t].cycle))]
    /\ UNCHANGED <<current_user_id, event_queue, invoked, pubVars, regFrame, ctlVars>>

\* Iterating the stream raises: the exception is logged, the coroutine ends.
StreamRaises(t) ==
    /\ t \in 1..Len(tasks)
    /\ tasks[t].st = "streaming"
    /\ tasks' = [tasks EXCEPT ![t].st = "crashed"]
    /\ UNCHANGED <<current_user_id, event_queue, queues, invoked, pubVars,
                   regFrame, ctlVars>>

HandlerIdle ==
    /\ current_user_id = None
    /\ event_queue = 1
    /\ queues = << << >> >>
    /\ tasks = << >>
    /\ invoked = << >>


\* ===================================================== CLIChatController
\* Lines the user types, as sequences of characters.
CLIMessages == {<< >>, <<" ">>, <<"h", "i">>, <<"e", "x", "i", "t">>}

\* Characters str.strip() removes, among those the inputs use.
Whitespace == {" ", "\t", "\n"}

RECURSIVE LStrip(_, _)
LStrip(m, chars) ==
    IF m # << >> /\ Head(m) \in chars THEN LStrip(Tail(m), chars) ELSE m

RECURSIVE RStrip(_, _)
RStrip(m, chars) ==
    IF m # << >> /\ m[Len(m)] \in chars
    THEN RStrip(SubSeq(m, 1, Len(m) - 1), chars) ELSE m

\* A strip that removes blanks only.
Strip_SpacesOnly(m) == RStrip(LStrip(m, {" "}), {" "})

\* str.strip()
Strip(m) == RStrip(LStrip(m, Whitespace), Whitespace)

\* Events the event bus may hand to the controller's callback.
BusEvents == {Event(et, None, << >>, 0) : et \in {"thread.run.created", "message_delta", "done"}}

\* run_chat_loop: a line is read. "exit" ends the loop; otherwise
\* process_user_message resets the event queue (nothing refers to the old
\* Queue any more: it is kept here as an empty one) and calls
\* add_message_to_thread, which rejects blank text at once (the error is
\* logged, no run is started) and otherwise awaits the remote create-message.
CLIReadInput(m) ==
    /\ cli.pc = "input"
    /\ cli.cycles < MaxCycles
    /\ IF Strip(m) = <<"e", "x", "i", "t">>
       THEN /\ cli' = [cli EXCEPT !.pc = "exited"]
            /\ UNCHANGED <<queues, event_queue>>
       ELSE /\ queues' = Append([queues EXCEPT ![event_queue] = << >>], << >>)
            /\ event_queue' = Len(queues) + 1
            /\ cli' = [cli EXCEPT !.pc = IF Strip(m) = << >> THEN "awaiting" ELSE "adding",
                                  !.cycles = @ + 1, !.ret = "none", !.run = 0]
    /\ UNCHANGED <<current_user_id, tasks, invoked, pubVars, regFrame, web>>

\* The remote create-message returns (ok): the run task is created
\* (asyncio.create_task(self.event_handler.start_run(...))); or it raises:
\* the error is logged. Either way run_chat_loop awaits the completion next.
CLIAddMessageReturns(ok) ==
    /\ cli.pc = "adding"
    /\ IF ok
       THEN /\ tasks' = Append(tasks, RunTask(cli.thread_id, cli.user_id, NoContext, cli.cycles))
            /\ cli' = [cli EXCEPT !.pc = "awaiting", !.run = Len(tasks) + 1]
       ELSE /\ cli' = [cli EXCEPT !.pc = "awaiting"]
            /\ UNCHANGED tasks
    /\ UNCHANGED <<current_user_id, event_queue, queues, invoked, pubVars, regFrame, web>>

\* The loop of await_run_completion with the completion test inverted.
AwaitOutcome_AnyType(et) ==
    IF et \in {"thread.message.delta", "message_delta"} THEN "print"
    ELSE IF et \notin CompletionTypes THEN "return"
    ELSE "continue"

\* CLIChatController.await_run_completion, what one dequeued event does.
AwaitOutcome(et) ==
    IF et \in {"thread.message.delta", "message_delta"} THEN "print"
    ELSE IF et \in CompletionTypes THEN "return"
    ELSE "continue"

\* await_run_completion: `event = await self.event_handler.event_queue.get()`
\* resumes with the head of the queue.
CLIAwaitGet ==
    /\ cli.pc = "awaiting"
    /\ queues[event_queue] # << >>
    /\ LET event == Head(queues[event_queue])
           outcome == AwaitOutcome(event.event_type)
       IN  /\ queues' = [queues EXCEPT ![event_queue] = Tail(@)]
           /\ stdout' = IF outcome = "print" THEN stdout \o JoinChunks(event.content)
                        ELSE stdout
           /\ cli' = IF outcome = "return"
                     THEN [cli EXCEPT !.pc = "input", !.ret = "True"]
                     ELSE cli
    /\ UNCHANGED <<current_user_id, event_queue, tasks, invoked, channels, sse,
                   pubCalls, pubRaisers, pubRaised, publishes, regFrame, web>>

\* complete_event_callback: the bus hands an event over; it is enqueued.
CLIBusCallback(event) ==
    /\ cli.pc # "exited"
    /\ Received < MaxStream
    /\ queues' = [queues EXCEPT ![event_queue] = Append(@, event)]
    /\ cli' = [cli EXCEPT !.bus = @ + 1]
    /\ UNCHANGED <<current_user_id, event_queue, tasks, invoked, pubVars, regFrame, web>>

\* ==================================================== QuartChatController
\* g.user_id of the session's requests: app.py takes it from the cookie or
\* makes a uuid, so it is never empty.
WebUser == "u1"

\* The `message` of a POST /user_send_message body.
WebMessages == {<< >>, <<" ">>, <<"h", "i">>}

\* Events the event bus may hand to QuartChatController._on_event.
WebBusEvents == {Event(et, None, << >>, 0) : et \in {"thread.run.created", "done"}}

RECURSIVE SSEPutAll(_, _, _)
\* `for ev in buffered: SSEManager.put_event(user_id, ev)`
SSEPutAll(q, user_id, evs) ==
    IF evs = << >> THEN q
    ELSE SSEPutAll(SSEPut(q, user_id, Head(evs)), user_id, Tail(evs))

\* message ids of the events evs, in order
MessageIds(evs) == [i \in 1..Len(evs) |-> evs[i].message_id]

\* POST /user_send_message of the session with g.user_id = user_id, up to its
\* first suspension. Without a message the
\* route answers 400. Otherwise process_user_message binds the user, replaces
\* the queue (nothing refers to the old Queue any more: it is kept here as an
\* empty one), clears the buffer and the ready flag and calls
\* add_message_to_thread, which raises at once on blank text (the request
\* fails) and otherwise awaits the remote create-message.
WebSendMessageAs(m, user_id) ==
    /\ web.pc = "idle"
    /\ web.cycle < MaxWebCycles
    /\ IF m = << >>
       THEN UNCHANGED <<current_user_id, queues, event_queue, web>>
       ELSE /\ current_user_id' = user_id
            /\ queues' = Append([queues EXCEPT ![event_queue] = << >>], << >>)
            /\ event_queue' = Len(queues) + 1
            /\ web' = [web EXCEPT !.pc = IF Strip(m) = << >> THEN "idle" ELSE "adding",
                                  !.cycle = @ + 1,
                                  !.user = user_id,
                                  !.event_buffer = << >>,
                                  !.ready = FALSE, !.readied = FALSE,
                                  !.arrived = << >>, !.placed = << >>]
    /\ UNCHANGED <<tasks, invoked, pubVars, regFrame, cli>>

\* The request of the session the web specification follows.
WebSendMessage(m) == WebSendMessageAs(m, WebUser)

\* The remote create-message returns (ok) and the run task is created, or it
\* raises and the request fails.
WebAddMessageReturns(ok) ==
    /\ web.pc = "adding"
    /\ IF ok
       THEN /\ tasks' = Append(tasks, RunTask(1, web.user, web.user, web.cycle))
            /\ web' = [web EXCEPT !.pc = "awaiting"]
       ELSE /\ web' = [web EXCEPT !.pc = "idle"]
            /\ UNCHANGED tasks
    /\ UNCHANGED <<current_user_id, event_queue, queues, invoked, pubVars, regFrame, cli>>

\* QuartChatController.await_run_completion, what one dequeued event does.
QuartAwaitOutcome(et) == IF et \in CompletionTypes THEN "return" ELSE "continue"

\* await_run_completion: `ev = await self.event_handler.event_queue.get()`
\* resumes with the head of the queue.
WebAwaitGet ==
    /\ web.pc = "awaiting"
    /\ queues[event_queue] # << >>
    /\ queues' = [queues EXCEPT ![event_queue] = Tail(@)]
    /\ web' = IF QuartAwaitOutcome(Head(queues[event_queue]).event_type) = "return"
              THEN [web EXCEPT !.pc = "idle"]
              ELSE web
    /\ UNCHANGED <<current_user_id, event_queue, tasks, invoked, pubVars, regFrame, cli>>

\* QuartChatController._on_event: the user id is injected, the event is
\* appended to the buffer, put on the handler's queue and, when the ready
\* flag is set and there is a user id, put on the SSE queue.
_on_event(event) ==
    /\ web.pc # "down"
    /\ Received < MaxStream
    /\ LET uid == IF Truthy(current_user_id) THEN current_user_id ELSE event.user_id
           ev == [event EXCEPT !.user_id = uid, !.message_id = web.bus + 1,
                               !.cycle = web.cycle]
           live == web.ready /\ Truthy(uid)
       IN  /\ web' = [web EXCEPT !.event_buffer = Append(@, ev),
                                 !.bus = @ + 1,
                                 !.arrived = Append(@, ev.message_id),
                                 !.placed = IF live THEN Append(@, ev.message_id) ELSE @]
           /\ queues' = [queues EXCEPT ![event_queue] = Append(@, ev)]
           /\ sse' = IF live THEN SSEPut(sse, uid, ev) ELSE sse
    /\ UNCHANGED <<current_user_id, event_queue, tasks, invoked, channels, stdout,
                   pubCalls, pubRaisers, pubRaised, publishes, regFrame, cli>>

\* POST /ready: flush_event_buffer(g.user_id) drains the buffer into the SSE
\* queue and sets the ready flag, which resumes a generator waiting for it.
flush_event_buffer(user_id) ==
    /\ web.pc # "down"
    /\ sse' = SSEPutAll(sse, user_id, web.event_buffer)
    /\ web' = [web EXCEPT !.event_buffer = << >>,
                          !.ready = TRUE, !.readied = TRUE,
                          !.placed = @ \o MessageIds(web.event_buffer),
                          !.gen = IF @ = "waiting" THEN "live" ELSE @]
    /\ UNCHANGED <<ehVars, channels, stdout, pubCalls, pubRaisers, pubRaised,
                   publishes, regFrame, cli>>

\* GET /assistant_stream_message: event_generator starts and waits for the
\* ready flag, which it passes at once when the flag is set.
SSEConnect ==
    /\ web.pc # "down"
    /\ web.gen = "none"
    /\ web' = [web EXCEPT !.gen = IF web.ready THEN "live" ELSE "waiting"]
    /\ UNCHANGED <<ehVars, pubVars, regFrame, cli>>

\* event_generator, one turn of `while True`: the user's SSE queue is drained
\* and every event of it is sent to the client.
event_generator ==
    /\ web.gen = "live"
    /\ WebUser \in DOMAIN sse
    /\ sse[WebUser] # << >>
    /\ sse' = [sse EXCEPT ![WebUser] = << >>]
    /\ web' = [web EXCEPT !.emitted = @ + Len(sse[WebUser])]
    /\ UNCHANGED <<ehVars, channels, stdout, pubCalls, pubRaisers, pubRaised,
                   publishes, regFrame, cli>>

\* The client disconnects: the generator is cancelled.
SSEDisconnect ==
    /\ web.gen # "none"
    /\ web' = [web EXCEPT !.gen = "none"]
    /\ UNCHANGED <<ehVars, pubVars, regFrame, cli>>

\* ==================================================== RollingEventBuffer
\* Message ids the callers of a buffer use.
MessageIdSet == {"", "m1", "m2", "m3"}

\* event_data dicts handed to finalize_message: without or with content.
EventDataSet == {[content |-> << >>], [content |-> <<"x">>]}

\* The ids of an OrderedDict kept as a sequence of [id, data], in order.
Keys(od) == [i \in 1..Len(od) |-> od[i].id]

\* An assignment that moves the key to the end.
OrderedSet_MoveToEnd(od, key, value) ==
    Append(SelectSeq(od, LAMBDA entry : entry.id # key), [id |-> key, data |-> value])

\* od[key] = value on an OrderedDict: a key it holds keeps its position, a
\* new key goes to the end.
OrderedSet(od, key, value) ==
    IF \E i \in 1..Len(od) : od[i].id = key
    THEN [i \in 1..Len(od) |-> IF od[i].id = key THEN [id |-> key, data |-> value]
                                ELSE od[i]]
    ELSE Append(od, [id |-> key, data |-> value])

RECURSIVE _enforce_capacity_Newest(_, _)
\* A capacity rule that evicts the newest entries.
_enforce_capacity_Newest(od, max_size) ==
    IF Len(od) > max_size
    THEN _enforce_capacity_Newest(SubSeq(od, 1, Len(od) - 1), max_size)
    ELSE od

RECURSIVE _enforce_capacity(_, _)
\* RollingEventBuffer._enforce_capacity: popitem(last=False) while over capacity
_enforce_capacity(od, max_size) ==
    IF Len(od) > max_size THEN _enforce_capacity(Tail(od), max_size) ELSE od

\* A list append that puts the chunk in front.
AppendChunk_Front(chunks, chunk_text) == <<chunk_text>> \o chunks

\* self.partial_chunks.setdefault(message_id, []).append(chunk_text)
AppendChunk(chunks, chunk_text) == Append(chunks, chunk_text)

\* A replay that returns everything when the id is not found.
get_replay_after_AllWhenUnknown(final_messages, last_message_id) ==
    IF \E i \in 1..Len(final_messages) : final_messages[i].id = last_message_id
    THEN LET i == CHOOSE i \in 1..Len(final_messages) :
                      final_messages[i].id = last_message_id
         IN  [j \in 1..(Len(final_messages) - i) |-> final_messages[i + j].data]
    ELSE [j \in 1..Len(final_messages) |-> final_messages[j].data]

RECURSIVE ReplayLoop(_, _, _, _)
\* The loop of get_replay_after over the remaining items.
ReplayLoop(items, last_message_id, seen, results) ==   \* seen: the found flag
    IF items = << >> THEN results
    ELSE IF seen
         THEN ReplayLoop(Tail(items), last_message_id, TRUE,
                         Append(results, Head(items).data))
         ELSE ReplayLoop(Tail(items), last_message_id,
                         Head(items).id = last_message_id, results)

\* RollingEventBuffer.get_replay_after
get_replay_after(final_messages, last_message_id) ==
    ReplayLoop(final_messages, last_message_id, last_message_id = "", << >>)

\* The buffer after __init__(max_size), with the record of the calls made.
NewBuffer(max_size) ==
    [max_size |-> max_size,
     partial_chunks |-> << >>,
     final_messages |-> << >>,
     calls |-> 0,                  \* calls made so far
     added |-> [m \in MessageIdSet |-> << >>],   \* chunks passed per id, in order
     finalized |-> << >>,          \* ids finalize_message stored, in call order
     replayArg |-> "",             \* argument and result of the last
     replay |-> << >>]             \* get_replay_after

\* RollingEventBuffer.add_partial_chunk
add_partial_chunk(message_id, chunk_text) ==
    /\ buf.max_size > 0
    /\ buf.calls < MaxBufferCalls
    /\ buf' = [buf EXCEPT
                 !.calls = @ + 1,
                 !.added[message_id] = Append(@, chunk_text),
                 !.partial_chunks =
                     IF message_id = "" THEN @
                     ELSE DictSet(@, message_id,
                                  AppendChunk(IF message_id \in DOMAIN @
                                              THEN @[message_id] ELSE << >>,
                                              chunk_text))]
    /\ UNCHANGED bufFrame

\* RollingEventBuffer.finalize_message
finalize_message(message_id, event_data) ==
    /\ buf.max_size > 0
    /\ buf.calls < MaxBufferCalls
    /\ IF message_id = ""
       THEN buf' = [buf EXCEPT !.calls = @ + 1]
       ELSE LET chunks == IF message_id \in DOMAIN buf.partial_chunks
                          THEN buf.partial_chunks[message_id] ELSE << >>
                combined == JoinChunks(chunks)
                data == [event_data EXCEPT !.content = Append(@, combined)]
            IN  buf' = [buf EXCEPT
                          !.calls = @ + 1,
                          !.partial_chunks = DictDel(@, message_id),
                          !.final_messages =
                              _enforce_capacity(OrderedSet(@, message_id, data),
                                                buf.max_size),
                          !.finalized = Append(@, message_id)]
    /\ UNCHANGED bufFrame

\* The event_data object final_messages holds for an id.
HeldData(message_id) ==
    LET i == CHOOSE i \in 1..Len(buf.final_messages) :
                 buf.final_messages[i].id = message_id
    IN  buf.final_messages[i].data

\* finalize_message called again with the event_data object passed before,
\* which is the object final_messages holds.
FinalizeSameData(message_id) ==
    /\ \E i \in 1..Len(buf.final_messages) : buf.final_messages[i].id = message_id
    /\ finalize_message(message_id, HeldData(message_id))

\* A call of get_replay_after; its result is kept.
GetReplayAfter(last_message_id) ==
    /\ buf.max_size > 0
    /\ buf.calls < MaxBufferCalls
    /\ buf' = [buf EXCEPT
                 !.calls = @ + 1,
                 !.replayArg = last_message_id,
                 !.replay = get_replay_after(buf.final_messages, last_message_id)]
    /\ UNCHANGED bufFrame

\* No buffer in use.
BufferIdle == buf = NewBuffer(0)

\* ============================== RunThreadManager.add_message_to_thread
\* Message texts, as sequences of characters.
Messages == {<< >>, <<" ">>, <<"\t", "\n">>, <<" ", "h">>, <<"h", "i">>}

\* Ids the remote API gives to created messages.
RemoteMessageIds == {"msg1", "msg2"}

\* Threads messages are added to.
MessageThreads == {1, 2}

\* The manager before any add_message_to_thread call.
NewManager ==
    [pc |-> "idle",
     thread_id |-> NoneTid, message |-> << >>, message_id |-> None,
     thread_message_tracking |-> << >>,
     messageCreates |-> 0,         \* calls of client.beta.threads.messages.create
     outcome |-> "none",           \* of the last call: ValueError, RuntimeError, returned
     ret |-> None,
     calls |-> 0]

\* add_message_to_thread is called: blank text raises ValueError before the
\* try; otherwise the remote create-message call is made and awaited.
AddMessageToThread(thread_id, message) ==
    /\ mgr.pc = "idle"
    /\ mgr.calls < MaxAddCalls
    /\ IF Strip(message) = << >>
       THEN mgr' = [mgr EXCEPT !.calls = @ + 1, !.thread_id = thread_id,
                               !.message = message, !.message_id = None,
                               !.outcome = "ValueError", !.ret = None]
       ELSE mgr' = [mgr EXCEPT !.calls = @ + 1, !.thread_id = thread_id,
                               !.message = message, !.message_id = None,
                               !.outcome = "none", !.ret = None,
                               !.pc = "creating",
                               !.messageCreates = @ + 1]
    /\ UNCHANGED mgrFrame

\* The remote create-message returns an id (ok) or raises; a raise becomes a
\* RuntimeError.
MessageCreateReturns(ok, message_id) ==
    /\ mgr.pc = "creating"
    /\ IF ok
       THEN mgr' = [mgr EXCEPT !.pc = "locking", !.message_id = message_id]
       ELSE mgr' = [mgr EXCEPT !.pc = "idle", !.outcome = "RuntimeError"]
    /\ UNCHANGED mgrFrame

\* `async with self.lock:` the id joins the thread's set (a duplicate is only
\* logged), and the id is returned.
TrackMessage ==
    /\ mgr.pc = "locking"
    /\ lock = 0
    /\ LET seen == IF mgr.thread_id \in DOMAIN mgr.thread_message_tracking
                   THEN mgr.thread_message_tracking[mgr.thread_id] ELSE {}
       IN  mgr' = [mgr EXCEPT
                     !.pc = "idle",
                     !.thread_message_tracking =
                         DictSet(@, mgr.thread_id, seen \cup {mgr.message_id}),
                     !.outcome = "returned",
                     !.ret = mgr.message_id]
    /\ UNCHANGED mgrFrame

\* No add_message_to_thread call is modelled.
MessagesIdle == mgr = NewManager

\* ============================================================ SSEManager
\* User ids the manager is called with, and the threads that call it.
SSEUsers == {"u1", "u2"}
SSEThreads == 1..NumSSEThreads
NoThread == 0

\* A lock that never makes a thread wait.
LockFree_Always(holder) == TRUE

\* `with lock:` enters when no thread holds the threading.Lock.
LockFree(holder) == holder = NoThread

\* A thread that is not inside a call.
IdleThread == [pc |-> "idle", op |-> "none", user_id |-> "", event |-> 0, items |-> << >>]

\* The class after import: the defaultdicts give every user id a free lock
\* and an empty deque. appended and delivered record, per user id, the events
\* in the order they were appended and in the order get_events listed them.
NewSSEManager ==
    [locks |-> [u \in SSEUsers |-> NoThread],
     queues |-> [u \in SSEUsers |-> << >>],
     thr |-> [th \in SSEThreads |-> IdleThread],
     calls |-> 0,
     appended |-> [u \in SSEUsers |-> << >>],
     delivered |-> [u \in SSEUsers |-> << >>]]

\* put_event(user_id, event) is called: `lock = cls._locks[user_id]`
put_event(th, user_id) ==
    /\ ssem.thr[th].pc = "idle"
    /\ ssem.calls < MaxSSECalls
    /\ ssem' = [ssem EXCEPT !.calls = @ + 1,
                            !.thr[th] = [pc |-> "acquire", op |-> "put", user_id |-> user_id,
                                         event |-> ssem.calls + 1, items |-> << >>]]
    /\ UNCHANGED ssemFrame

\* get_events(user_id) is called: `lock = cls._locks[user_id]`
get_events(th, user_id) ==
    /\ ssem.thr[th].pc = "idle"
    /\ ssem.calls < MaxSSECalls
    /\ ssem' = [ssem EXCEPT !.calls = @ + 1,
                            !.thr[th] = [pc |-> "acquire", op |-> "get", user_id |-> user_id,
                                         event |-> 0, items |-> << >>]]
    /\ UNCHANGED ssemFrame

\* `with lock:` of either method
SSEAcquire(th) ==
    /\ ssem.thr[th].pc = "acquire"
    /\ LockFree(ssem.locks[ssem.thr[th].user_id])
    /\ ssem' = [ssem EXCEPT !.locks[ssem.thr[th].user_id] = th,
                            !.thr[th].pc = IF ssem.thr[th].op = "put" THEN "append"
                                           ELSE "list"]
    /\ UNCHANGED ssemFrame

\* put_event: `cls._queues[user_id].append(event)`
SSEAppend(th) ==
    /\ ssem.thr[th].pc = "append"
    /\ LET u == ssem.thr[th].user_id
           event == [user_id |-> u, n |-> ssem.thr[th].event]
       IN  ssem' = [ssem EXCEPT !.queues[u] = Append(@, event),
                                !.appended[u] = Append(@, event),
                                !.thr[th].pc = "release"]
    /\ UNCHANGED ssemFrame

\* get_events: `q = cls._queues[user_id]; items = list(q)`
SSEList(th) ==
    /\ ssem.thr[th].pc = "list"
    /\ LET u == ssem.thr[th].user_id
       IN  ssem' = [ssem EXCEPT !.thr[th].items = ssem.queues[u],
                                !.delivered[u] = @ \o ssem.queues[u],
                                !.thr[th].pc = "clear"]
    /\ UNCHANGED ssemFrame

\* get_events: `q.clear()`
SSEClear(th) ==
    /\ ssem.thr[th].pc = "clear"
    /\ ssem' = [ssem EXCEPT !.queues[ssem.thr[th].user_id] = << >>,
                            !.thr[th].pc = "release"]
    /\ UNCHANGED ssemFrame

\* The `with` block is left and the method returns.
SSERelease(th) ==
    /\ ssem.thr[th].pc = "release"
    /\ ssem' = [ssem EXCEPT !.locks[ssem.thr[th].user_id] = NoThread,
                            !.thr[th] = IdleThread]
    /\ UNCHANGED ssemFrame

\* No thread calls the manager.
SSEIdle == ssem = NewSSEManager

\* ====================================================== user_id injection
\* Objects live in a heap, a sequence indexed by their identity. An event
\* object refers to its data object by identity (NoRef: it has none); a data
\* object has a user_id or none (Missing).
NoRef == 0
Missing == "<missing>"

EventObject(type, data) ==
    [type |-> type, event_type |-> "thread.run.completed", data |-> data]
DataObject(type, user_id) == [type |-> type, user_id |-> user_id]

\* data.get("user_id")
UserOf(obj) == IF obj.user_id = Missing THEN None ELSE obj.user_id

\* What a holder of the event sees through its reference: the event object
\* and the data object it refers to.
Snapshot(heap, event) ==
    IF event = NoRef THEN [type |-> "none"]
    ELSE [type |-> heap[event].type, event_type |-> heap[event].event_type,
          data |-> IF heap[event].data = NoRef THEN [type |-> "none"]
                   ELSE heap[heap[event].data]]

\* _handle_run_completed and _handle_message_completed: data_with_user is the
\* __dict__ of event_data.data when it has one, a dict() copy otherwise;
\* user_id is stored into it and the term event refers to it.
data_with_user(heap, event_data, user_id) ==
    LET d == heap[event_data].data
    IN  IF heap[d].type # "dict"
        THEN LET h1 == [heap EXCEPT ![d].user_id = user_id]
             IN  [heap |-> Append(h1, EventObject("dict", d)), out |-> Len(h1) + 1]
        ELSE LET h1 == Append(heap, [heap[d] EXCEPT !.user_id = user_id])
             IN  [heap |-> Append(h1, EventObject("dict", Len(h1))), out |-> Len(h1) + 1]

\* QuartChannel.publish_event, step 1: the event as a dict. event.copy() is
\* shallow, model_dump() copies the data as well, any other object is wrapped
\* around its .data (dumped when that is a BaseModel).
Normalize(heap, event) ==
    LET ev == heap[event]
        dumped == Append(heap, [heap[ev.data] EXCEPT !.type = "dict"])
    IN  IF ev.type = "dict"
        THEN [heap |-> Append(heap, ev), out |-> Len(heap) + 1]
        ELSE IF ev.type = "BaseModel"
        THEN IF ev.data = NoRef
             THEN [heap |-> Append(heap, [ev EXCEPT !.type = "dict"]), out |-> Len(heap) + 1]
             ELSE [heap |-> Append(dumped, [ev EXCEPT !.type = "dict", !.data = Len(dumped)]),
                   out |-> Len(dumped) + 1]
        ELSE IF ev.data = NoRef
        THEN LET h1 == Append(heap, DataObject("dict", Missing))
             IN  [heap |-> Append(h1, EventObject("dict", Len(h1))), out |-> Len(h1) + 1]
        ELSE IF heap[ev.data].type = "BaseModel"
        THEN [heap |-> Append(dumped, EventObject("dict", Len(dumped))),
              out |-> Len(dumped) + 1]
        ELSE [heap |-> Append(heap, EventObject("dict", ev.data)), out |-> Len(heap) + 1]

\* QuartChannel.publish_event, step 2: evt["data"] as a plain dict: the dict
\* itself, dict(data) of a model, {} when there is none or dict() raises.
PlainData(heap, evt) ==
    LET d == heap[evt].data
    IN  IF d = NoRef
        THEN [heap |-> Append(heap, DataObject("dict", Missing)), out |-> Len(heap) + 1]
        ELSE IF heap[d].type = "dict" THEN [heap |-> heap, out |-> d]
        ELSE IF heap[d].type = "BaseModel"
        THEN [heap |-> Append(heap, [heap[d] EXCEPT !.type = "dict"]), out |-> Len(heap) + 1]
        ELSE [heap |-> Append(heap, DataObject("dict", Missing)), out |-> Len(heap) + 1]

\* QuartChannel.publish_event up to put_event: g_user_id is g.user_id, None
\* outside a request context. out is the event handed to the SSE manager,
\* NoRef when the event is dropped.
publish_event(heap, event, g_user_id) ==
    LET evt == Normalize(heap, event)
        plain == PlainData(evt.heap, evt.out)
        data == plain.out
        found_user == UserOf(plain.heap[data])
        injects == ~Truthy(found_user) /\ Truthy(g_user_id)
        user_id == IF injects THEN g_user_id ELSE found_user
        h3 == IF injects THEN [plain.heap EXCEPT ![data].user_id = g_user_id]
              ELSE plain.heap
    IN  IF ~Truthy(user_id) THEN [heap |-> h3, out |-> NoRef]
        ELSE [heap |-> [h3 EXCEPT ![evt.out].data = data], out |-> evt.out]

\* QuartChatController._on_event, step 1:
\* `event.setdefault("data", {})["user_id"] = uid`
inject_user_id(heap, event, user_id) ==
    LET h1 == IF heap[event].data = NoRef
              THEN [Append(heap, DataObject("dict", Missing)) EXCEPT
                       ![event].data = Len(heap) + 1]
              ELSE heap
        d == h1[event].data
        uid == IF Truthy(user_id) THEN user_id ELSE UserOf(h1[d])
    IN  [heap |-> [h1 EXCEPT ![d].user_id = uid], out |-> event]

\* User ids an event may carry, and those of the handler or the request.
EventUserIds == {Missing, "", "u1", "u2"}
CurrentUserIds == {None, "", "u1", "u2"}

\* An event object (identity 2) and its data object (identity 1), or an
\* event without data (identity 1).
EventHeap(event_type, data_type, user_id) ==
    IF data_type = "none" THEN <<EventObject(event_type, NoRef)>>
    ELSE <<DataObject(data_type, user_id), EventObject(event_type, 1)>>

\* Nothing injected yet.
NewInjection ==
    [op |-> "none", heap |-> << >>, event |-> NoRef, before |-> [type |-> "none"],
     after |-> [type |-> "none"], out |-> [type |-> "none"]]

\* The record of one injection into the event of a heap.
Injected(op, heap, done) ==
    [op |-> op, heap |-> done.heap, event |-> Len(heap),
     before |-> Snapshot(heap, Len(heap)),
     after |-> Snapshot(done.heap, Len(heap)),
     out |-> Snapshot(done.heap, done.out)]

\* A completion handler receives an event of the stream: an SDK object whose
\* data is an object or a mapping.
CompletionHandlerInjects(handler, data_type, user_id, handler_user_id) ==
    /\ inj.op = "none"
    /\ LET heap == EventHeap("BaseModel", data_type, user_id)
       IN  inj' = Injected(handler, heap, data_with_user(heap, Len(heap), handler_user_id))
    /\ UNCHANGED injFrame

\* The web channel receives an event from the publisher.
QuartChannelInjects(event_type, data_type, user_id, g_user_id) ==
    /\ inj.op = "none"
    /\ LET heap == EventHeap(event_type, data_type, user_id)
       IN  inj' = Injected("publish_event", heap, publish_event(heap, Len(heap), g_user_id))
    /\ UNCHANGED injFrame

\* The bus callback of the web controller receives an event dict.
OnEventInjects(data_type, user_id, handler_user_id) ==
    /\ inj.op = "none"
    /\ LET heap == EventHeap("dict", data_type, user_id)
       IN  inj' = Injected("_on_event", heap, inject_user_id(heap, Len(heap), handler_user_id))
    /\ UNCHANGED injFrame

\* No injection.
InjIdle == inj = NewInjection

LibIdle == BufferIdle /\ MessagesIdle /\ ToolsIdle /\ SSEIdle /\ InjIdle

\* ================================================================= specs
CLIIdle ==
    cli = [user_id |-> None, thread_id |-> 0, pc |-> "exited", cycles |-> 0,
           ret |-> "none", bus |-> 0, run |-> 0]

WebIdle ==
    web = [pc |-> "down", cycle |-> 0, event_buffer |-> << >>, ready |-> FALSE,
           readied |-> FALSE, gen |-> "none", bus |-> 0, arrived |-> << >>,
           placed |-> << >>, emitted |-> 0, user |-> WebUser]

PublisherInit ==
    /\ RegistryInit
    /\ PublisherIdle
    /\ HandlerIdle
    /\ CLIIdle
    /\ WebIdle
    /\ LibIdle
    /\ channels \in ChannelConfigs

PublisherNext ==
    \E event \in PublishedEvents, raisers \in SUBSET (1..Len(channels)),
       ctx \in {NoContext, "u2"} : Publish(event, raisers, ctx)

SpecPublisher == PublisherInit /\ [][PublisherNext]_vars

RegistrySpecInit ==
    /\ RegistryInit
    /\ PublisherIdle
    /\ HandlerIdle
    /\ CLIIdle
    /\ WebIdle
    /\ LibIdle
    /\ channels = <<"cli">>

SpecRegistry == RegistrySpecInit /\ [][RegistryNext]_vars


\* Thread ids events may carry, and the events a remote stream may yield.
EventTids == {AbsentTid, NoneTid, 1, 2}

WireEvents ==
    {Wire("thread.message.delta", tid, AbsentTid, "a", FALSE) : tid \in EventTids}
    \cup {Wire(et, tid, AbsentTid, "", FALSE) :
            et \in {"thread.run.completed", "done", "x.unknown"}, tid \in EventTids}
    \cup {Wire("thread.run.requires_action", tid, dtid, "", req) :
            tid \in {AbsentTid, 1, 2}, dtid \in {AbsentTid, 1, 2}, req \in BOOLEAN}

\* Registries get_or_create_thread can leave behind: each key has no record
\* or a thread of its own.
RunRegistries ==
    {r \in UNION {[ks -> {ThreadRecord(1), ThreadRecord(2)}] : ks \in SUBSET RegistryKeys} :
        \A k1, k2 \in DOMAIN r : k1 # k2 => r[k1] # r[k2]}

\* The handler actions, the streams yielding events of the set evs.
HandlerNext(evs) ==
    \/ \E t \in 1..Len(tasks) : RunBegins(t)
    \/ \E t \in 1..Len(tasks), ok \in BOOLEAN : RunOpens(t, ok)
    \/ \E t \in 1..Len(tasks), e \in evs : RunStreamEvent(t, e)
    \/ \E t \in 1..Len(tasks), ok \in BOOLEAN : ActionTaskRuns(t, ok)
    \/ \E t \in 1..Len(tasks), e \in evs : NestedStreamEvent(t, e)
    \/ \E t \in 1..Len(tasks) : StreamEnds(t)
    \/ \E t \in 1..Len(tasks) : StreamRaises(t)

\* One start_run task on thread 1, created for user u by a controller.
OneRun(u) ==
    /\ RegistryIdle
    /\ PublisherIdle
    /\ CLIIdle
    /\ WebIdle
    /\ LibIdle
    /\ channels = <<"cli">>
    /\ current_user_id = u
    /\ event_queue = 1
    /\ queues = << << >> >>
    /\ tasks = <<RunTask(1, u, NoContext, 1)>>
    /\ invoked = << >>

RunInit ==
    /\ active_threads \in RunRegistries
    /\ \E u \in {"u1", ""} : OneRun(u)

RunNext == HandlerNext(WireEvents)

SpecRun == RunInit /\ [][RunNext]_vars

\* Every wire type of the dispatch table, None, and types absent from it.
DispatchTypes == DOMAIN EventMap \cup {None, "", "x.unknown"}

DispatchEvents == {Wire(et, AbsentTid, 1, "a", TRUE) : et \in DispatchTypes}

DispatchInit ==
    /\ active_threads = DictSet(<< >>, ThreadKey(Assistant, "u1"), ThreadRecord(1))
    /\ OneRun("u1")

DispatchNext == HandlerNext(DispatchEvents)

SpecDispatch == DispatchInit /\ [][DispatchNext]_vars

\* Events the stream of a CLI run yields.
CLIWireEvents ==
    {Wire("thread.message.delta", AbsentTid, AbsentTid, c, FALSE) : c \in Chunks}
    \cup {Wire("thread.message.delta", 2, AbsentTid, "a", FALSE),
          Wire("thread.message.completed", AbsentTid, AbsentTid, "", FALSE),
          Wire("thread.run.requires_action", AbsentTid, 1, "", TRUE)}

\* A CLI session after CLIChatController.create_async: the thread of
\* (assistant, user) is registered and the controller holds its id.
CLIInit ==
    /\ RegistryIdle
    /\ PublisherIdle
    /\ channels = <<"cli">>
    /\ \E u \in {"u1", ""} :
          /\ active_threads = DictSet(<< >>, ThreadKey(Assistant, u), ThreadRecord(1))
          /\ cli = [user_id |-> u, thread_id |-> 1, pc |-> "input", cycles |-> 0,
                    ret |-> "none", bus |-> 0, run |-> 0]
          /\ current_user_id = u
    /\ event_queue = 1
    /\ queues = << << >> >>
    /\ tasks = << >>
    /\ invoked = << >>
    /\ WebIdle
    /\ LibIdle

CLIStep ==
    \/ \E m \in CLIMessages : CLIReadInput(m)
    \/ \E ok \in BOOLEAN : CLIAddMessageReturns(ok)
    \/ CLIAwaitGet
    \/ \E event \in BusEvents : CLIBusCallback(event)

CLINext == CLIStep \/ HandlerNext(CLIWireEvents)

SpecCLI == CLIInit /\ [][CLINext]_vars

\* The event loop resumes a coroutine whose awaited Queue.get() can complete.
SpecCLIFair == SpecCLI /\ WF_vars(CLIAwaitGet)

\* Events of a run that asks for tool calls: the outer stream may yield the
\* requires-action event and its terminating done event, either stream a
\* delta or a completed message.
CycleWireEvents ==
    {Wire("thread.run.requires_action", AbsentTid, 1, "", TRUE),
     Wire("done", AbsentTid, AbsentTid, "", FALSE),
     Wire("thread.message.delta", AbsentTid, AbsentTid, "a", FALSE),
     Wire("thread.message.completed", AbsentTid, AbsentTid, "", FALSE)}

\* A CLI session whose queue is fed by the handlers of its own runs only.
CycleNext ==
    \/ \E m \in CLIMessages : CLIReadInput(m)
    \/ \E ok \in BOOLEAN : CLIAddMessageReturns(ok)
    \/ CLIAwaitGet
    \/ HandlerNext(CycleWireEvents)

SpecCycle == CLIInit /\ [][CycleNext]_vars

\* Events the stream of a web run yields.
WebWireEvents ==
    {Wire("thread.message.delta", AbsentTid, AbsentTid, "a", FALSE),
     Wire("thread.message.completed", AbsentTid, AbsentTid, "", FALSE)}

\* A web session after QuartChatController.create_async: the thread of the
\* assistant is registered, the handler was made with user_id "".
WebInit ==
    /\ RegistryIdle
    /\ active_threads = DictSet(<< >>, ThreadKey(Assistant, None), ThreadRecord(1))
    /\ PublisherIdle
    /\ channels = <<"quart">>
    /\ CLIIdle
    /\ current_user_id = ""
    /\ event_queue = 1
    /\ queues = << << >> >>
    /\ tasks = << >>
    /\ invoked = << >>
    /\ web = [pc |-> "idle", cycle |-> 0, event_buffer |-> << >>, ready |-> FALSE,
              readied |-> FALSE, gen |-> "none", bus |-> 0, arrived |-> << >>,
              placed |-> << >>, emitted |-> 0, user |-> WebUser]
    /\ LibIdle

WebNext ==
    \/ \E m \in WebMessages : WebSendMessage(m)
    \/ \E ok \in BOOLEAN : WebAddMessageReturns(ok)
    \/ WebAwaitGet
    \/ \E event \in WebBusEvents : _on_event(event)
    \/ flush_event_buffer(WebUser)
    \/ SSEConnect
    \/ event_generator
    \/ SSEDisconnect
    \/ \E t \in 1..Len(tasks) : RunBegins(t)
    \/ \E t \in 1..Len(tasks), ok \in BOOLEAN : RunOpens(t, ok)
    \/ \E t \in 1..Len(tasks), e \in WebWireEvents : RunStreamEvent(t, e)
    \/ \E t \in 1..Len(tasks) : StreamEnds(t)
    \/ \E t \in 1..Len(tasks) : StreamRaises(t)

SpecWeb == WebInit /\ [][WebNext]_vars

\* Browser sessions served by the one controller_instance of the application.
WebUsers == {"u1", "u2"}

\* The singleton controller serving the sessions' POST /user_send_message
\* requests one after the other, its queue fed by the runs only.
SessionsNext ==
    \/ \E m \in WebMessages, user_id \in WebUsers : WebSendMessageAs(m, user_id)
    \/ \E ok \in BOOLEAN : WebAddMessageReturns(ok)
    \/ WebAwaitGet
    \/ \E t \in 1..Len(tasks) : RunBegins(t)
    \/ \E t \in 1..Len(tasks), ok \in BOOLEAN : RunOpens(t, ok)
    \/ \E t \in 1..Len(tasks), e \in WebWireEvents : RunStreamEvent(t, e)
    \/ \E t \in 1..Len(tasks) : StreamEnds(t)
    \/ \E t \in 1..Len(tasks) : StreamRaises(t)

SpecSessions == WebInit /\ [][SessionsNext]_vars

\* A RollingEventBuffer of any capacity from 1 to MaxSize, used on its own.
BufferInit ==
    /\ RegistryInit
    /\ SSEIdle
    /\ InjIdle
    /\ PublisherIdle
    /\ channels = <<"cli">>
    /\ HandlerIdle
    /\ CLIIdle
    /\ WebIdle
    /\ \E max_size \in 1..MaxSize : buf = NewBuffer(max_size)
    /\ MessagesIdle
    /\ ToolsIdle

BufferNext ==
    \/ \E message_id \in MessageIdSet, chunk_text \in Chunks :
          add_partial_chunk(message_id, chunk_text)
    \/ \E message_id \in MessageIdSet, event_data \in EventDataSet :
          finalize_message(message_id, event_data)
    \/ \E message_id \in MessageIdSet : FinalizeSameData(message_id)
    \/ \E last_message_id \in MessageIdSet : GetReplayAfter(last_message_id)

SpecBuffer == BufferInit /\ [][BufferNext]_vars

\* add_message_to_thread called again and again on one manager.
MessagesInit ==
    /\ RegistryInit
    /\ SSEIdle
    /\ InjIdle
    /\ PublisherIdle
    /\ channels = <<"cli">>
    /\ HandlerIdle
    /\ CLIIdle
    /\ WebIdle
    /\ BufferIdle
    /\ mgr = NewManager
    /\ ToolsIdle

MessagesNext ==
    \/ \E thread_id \in MessageThreads, message \in Messages :
          AddMessageToThread(thread_id, message)
    \/ \E ok \in BOOLEAN, message_id \in RemoteMessageIds :
          MessageCreateReturns(ok, message_id)
    \/ TrackMessage

SpecMessages == MessagesInit /\ [][MessagesNext]_vars

\* A ToolCallExecutor with any of the registries, one call made on it.
ToolsInit ==
    /\ RegistryInit
    /\ SSEIdle
    /\ InjIdle
    /\ PublisherIdle
    /\ channels = <<"cli">>
    /\ HandlerIdle
    /\ CLIIdle
    /\ WebIdle
    /\ BufferIdle
    /\ MessagesIdle
    /\ \E agent_actions \in AgentActions : tools = NewTools(agent_actions)

ToolsNext ==
    \/ \E tool_name \in ToolNames, arguments \in {Loads(a) : a \in ArgumentTexts},
          behaviour \in ToolBehaviours :
          Execute(tool_name, arguments, behaviour)
    \/ \E call_id \in {"c1"}, result \in ToolResults, success \in BOOLEAN,
          env \in ContextEnvs :
          PrepareToolOutput(call_id, result, success, env)
    \/ /\ tools.op = "none"
       /\ \E n \in 1..MaxToolCalls : \E tcs \in [1..n -> ToolCalls("c")] :
             HandleToolCalls([i \in 1..n |-> [tcs[i] EXCEPT !.id = CallIds[i]]])

SpecTools == ToolsInit /\ [][ToolsNext]_vars

\* Threads of the application calling the manager: the publisher's channel
\* puts, the SSE generators get.
SSEInit ==
    /\ RegistryInit
    /\ PublisherIdle
    /\ channels = <<"quart">>
    /\ HandlerIdle
    /\ CLIIdle
    /\ WebIdle
    /\ BufferIdle
    /\ MessagesIdle
    /\ ToolsIdle
    /\ ssem = NewSSEManager
    /\ InjIdle

SSENext ==
    \/ \E th \in SSEThreads, user_id \in SSEUsers : put_event(th, user_id)
    \/ \E th \in SSEThreads, user_id \in SSEUsers : get_events(th, user_id)
    \/ \E th \in SSEThreads : SSEAcquire(th)
    \/ \E th \in SSEThreads : SSEAppend(th)
    \/ \E th \in SSEThreads : SSEList(th)
    \/ \E th \in SSEThreads : SSEClear(th)
    \/ \E th \in SSEThreads : SSERelease(th)

SpecSSE == SSEInit /\ [][SSENext]_vars

\* One event handed to one of the places that inject user_id.
InjectInit ==
    /\ RegistryInit
    /\ PublisherIdle
    /\ channels = <<"quart">>
    /\ HandlerIdle
    /\ CLIIdle
    /\ WebIdle
    /\ BufferIdle
    /\ MessagesIdle
    /\ ToolsIdle
    /\ SSEIdle
    /\ inj = NewInjection

InjectNext ==
    \/ \E handler \in {"_handle_run_completed", "_handle_message_completed"},
          data_type \in {"BaseModel", "dict"}, user_id \in EventUserIds,
          handler_user_id \in CurrentUserIds :
          CompletionHandlerInjects(handler, data_type, user_id, handler_user_id)
    \/ \E event_type \in {"dict", "BaseModel", "object"},
          data_type \in {"none", "dict", "BaseModel", "object"},
          user_id \in EventUserIds, g_user_id \in {None, "u1", "u2"} :
          QuartChannelInjects(event_type, data_type, user_id, g_user_id)
    \/ \E data_type \in {"none", "dict"}, user_id \in EventUserIds,
          handler_user_id \in CurrentUserIds :
          OnEventInjects(data_type, user_id, handler_user_id)

SpecInject == InjectInit /\ [][InjectNext]_vars

\* ------------------------------------------------------------ claims
\* Both calls looked the key up and found no record (first use).
FirstUse(p) == validated[p] = "none" /\ pc[p] \in {"creating", "storing", "done", "raised"}

\* C1: concurrent get_or_create_thread calls for one key that start from a
\* registry without a record for it invoke the remote create at most once
\* between them and return the same thread id.
C1_NoDuplicateCreation ==
    \A p \in Callers : \A q \in overlap[p] :
        (callKey[p] = callKey[q] /\ FirstUse(p) /\ FirstUse(q))
        => /\ creates[p] + creates[q] <= 1
           /\ (pc[p] = "done" /\ pc[q] = "done") => ret[p] = ret[q]

\* C2: a call that follows a completed call for the same key, and whose
\* validation of the cached record succeeds, returns the thread id the
\* previous call returned and invokes no remote create.
C2_SequentialCallsSameThread ==
    \A p \in Callers :
        (pc[p] = "done" /\ validated[p] = "ok" /\ prevRet[p] # 0)
        => (ret[p] = prevRet[p] /\ creates[p] = 0)

C2_Witness ==
    \E p \in Callers :
        /\ pc[p] = "done" /\ validated[p] = "ok" /\ prevRet[p] # 0
        /\ ret[p] = prevRet[p] /\ creates[p] = 0 /\ calls[p] = 2


\* C3: in start_run an event of the primary stream reaches a handler exactly
\* when its thread id (the expected one when it carries none) is the run's
\* expected thread id and the registry record of (assistant,
\* current_user_id), scoped key first, holds that thread id; otherwise the
\* event is dropped: the run goes on, nothing is queued, nothing published.
C3_HandlerReachedIffThreadValid ==
    [][\A t \in 1..Len(tasks), e \in WireEvents :
          RunStreamEvent(t, e) =>
             IF PassesThreadCheck(e.thread_id, tasks[t].thread_id)
             THEN invoked' # << >>
             ELSE /\ invoked' = << >>
                  /\ tasks'[t].st = "streaming"
                  /\ Len(tasks') = Len(tasks)
                  /\ queues' = queues
                  /\ publishes' = publishes
                  /\ stdout' = stdout /\ sse' = sse]_vars

C3_Witness ==
    /\ tasks[1].n = 2 /\ tasks[1].st = "streaming"
    /\ invoked = << >>
    /\ queues[event_queue] # << >>
    /\ ThreadKey(Assistant, "u1") \in DOMAIN active_threads
    /\ Assistant \in DOMAIN active_threads

\* C4: every event consumed from the remote API, from the primary stream of
\* a run or from the nested stream of a tool-output submission, is dispatched
\* to a handler only when it passes the thread check.
C4_EveryInboundEventValidated ==
    [][\A t \in 1..Len(tasks), e \in WireEvents :
          (RunStreamEvent(t, e) \/ NestedStreamEvent(t, e)) =>
             (invoked' # << >> => PassesThreadCheck(e.thread_id, tasks[t].thread_id))]_vars

\* The run whose completion the controller is waiting for has yielded text
\* deltas and then a completion-class event, all passing the thread check.
C5_RunCompleted == cli.run # 0 /\ tasks[cli.run].shape = "completed"

C5_DeltasPublishedInOrder ==
    \A t \in 1..Len(tasks) :
        (tasks[t].kind = "run" /\ tasks[t].shape \in {"deltas", "completed"})
        => /\ tasks[t].pubd = tasks[t].sent
           /\ Len(tasks) = 1 => stdout = JoinChunks(tasks[t].sent)

\* C5: after process_user_message with non-blank text on a session whose
\* thread is registered, when the stream yields text deltas d1..dn and then a
\* completion-class event, all passing the thread check, each delta has been
\* published exactly once, in order (the text delivered is their
\* concatenation), and await_run_completion eventually returns success.
C5_DeltasDeliveredThenSuccess ==
    /\ []C5_DeltasPublishedInOrder
    /\ C5_RunCompleted ~> (cli.ret = "True")

C5_Witness ==
    /\ C5_RunCompleted
    /\ tasks[cli.run].sent = <<"a", "b">>
    /\ tasks[cli.run].pubd = <<"a", "b">>
    /\ stdout = "ab"
    /\ cli.ret = "True"

\* C6: await_run_completion returns, with success, only by dequeuing an event
\* of type message_completed, thread.run.completed or done from the current
\* queue; dequeuing an event of another type leaves it waiting.
C6_ReturnsOnlyOnCompletionEvent ==
    [][/\ (cli.ret # "True" /\ cli'.ret = "True")
            => /\ cli.pc = "awaiting"
               /\ queues[event_queue] # << >>
               /\ Head(queues[event_queue]).event_type \in CompletionTypes
               /\ queues'[event_queue] = Tail(queues[event_queue])
       /\ (cli.pc = "awaiting" /\ cli'.pc # "awaiting") => cli'.ret = "True"
       /\ (/\ cli.pc = "awaiting" /\ queues[event_queue] # << >>
           /\ Len(queues'[event_queue]) < Len(queues[event_queue])
           /\ Head(queues[event_queue]).event_type \notin CompletionTypes)
            => cli'.pc = "awaiting" /\ cli'.ret # "True"]_vars

C6_Witness ==
    /\ cli.ret = "True" /\ cli.pc = "input"
    /\ cli.bus = 1
    /\ C5_RunCompleted
    /\ queues[event_queue] = << >>

\* C7: in every run cycle of a web session no event produced in the cycle is
\* sent on the session's SSE stream before /ready has been called in that
\* cycle, also when the stream was opened and live in an earlier cycle.
C7_NothingShownBeforeReady ==
    [][event_generator =>
          \A i \in 1..Len(sse[WebUser]) :
              (web.cycle > 0 /\ sse[WebUser][i].cycle = web.cycle) => web.readied]_vars

\* C8: in a run cycle, whatever the order of event arrivals and /ready calls,
\* no arriving event is put on the SSE queue before /ready; from the first
\* /ready on the events put on it are the events that arrived, each once, in
\* arrival order.
C8_EveryEventPlacedOnce ==
    web.cycle > 0 =>
        IF web.readied THEN web.placed = web.arrived ELSE web.placed = << >>

\* C9: for every event type, None and types absent from the table included,
\* dispatch invokes one handler, once: the handler the table holds for the
\* type, else the unhandled-event fallback, which leaves the run, the queue
\* and the published output as they are.
C9_DispatchInvokesOneHandler ==
    [][\A t \in 1..Len(tasks), e \in DispatchEvents :
          (RunStreamEvent(t, e) \/ NestedStreamEvent(t, e)) =>
             /\ Len(invoked') = 1
             /\ e.event \in DOMAIN EventMap => invoked'[1] = EventMap[e.event]
             /\ e.event \notin DOMAIN EventMap
                  => /\ invoked'[1] = "_handle_unhandled_event"
                     /\ tasks'[t].st = "streaming"
                     /\ Len(tasks') = Len(tasks)
                     /\ queues' = queues
                     /\ publishes' = publishes
                     /\ stdout' = stdout /\ sse' = sse]_vars

C9_Witness ==
    /\ invoked = <<"_handle_unhandled_event">>
    /\ tasks[1].n = 2 /\ tasks[1].st = "streaming"
    /\ queues[event_queue] # << >>

\* C10: publish() calls publish_event exactly once on every configured
\* channel, in configuration order, whichever channels raise, and lets no
\* exception escape.
C10_PublishReachesEveryChannel ==
    /\ pubRaised = FALSE
    /\ publishes > 0 => pubCalls = [i \in 1..Len(channels) |-> i]

C10_Witness ==
    /\ Len(channels) = 3
    /\ pubRaisers = {2}
    /\ pubCalls = <<1, 2, 3>>
    /\ channels = <<"cli", "redis", "quart">>
    /\ stdout = "a"
    /\ "u1" \in DOMAIN sse

\* ------------------------------------------------- RollingEventBuffer claims
\* The last n elements of a sequence.
LastN(seq, n) == IF Len(seq) <= n THEN seq ELSE SubSeq(seq, Len(seq) - n + 1, Len(seq))

\* The elements of a sequence.
Elements(seq) == {seq[i] : i \in 1..Len(seq)}

RECURSIVE DistinctInOrder(_, _)
\* The distinct elements of a sequence in order of first occurrence.
DistinctInOrder(seq, acc) ==
    IF seq = << >> THEN acc
    ELSE DistinctInOrder(Tail(seq),
                         IF Head(seq) \in Elements(acc) THEN acc
                         ELSE Append(acc, Head(seq)))

RECURSIVE RecentDistinct(_, _, _)
\* The n distinct elements that occur last in a sequence.
RecentDistinct(seq, n, acc) ==
    IF seq = << >> \/ Cardinality(acc) = n THEN acc
    ELSE RecentDistinct(SubSeq(seq, 1, Len(seq) - 1), n, acc \cup {seq[Len(seq)]})

RECURSIVE InsertionWindow(_, _, _)
\* The ids held after the finalizations of a history, when finalizing an id
\* that is not held inserts it at the end and drops the oldest-inserted id
\* over capacity, and finalizing a held id moves nothing.
InsertionWindow(history, n, held) ==
    IF history = << >> THEN held
    ELSE InsertionWindow(Tail(history), n,
                         IF Head(history) \in Elements(held) THEN held
                         ELSE LastN(Append(held, Head(history)), n))

\* C11 (as stated): final_messages never exceeds max_size and holds exactly
\* the most recent max_size distinct finalized ids in order of first
\* insertion: either the tail of the ids in order of their first finalization,
\* or the max_size ids finalized last, in order of their first finalization.
C11_RecentDistinctByFirstInsertion ==
    buf.max_size > 0 =>
        LET ids == DistinctInOrder(buf.finalized, << >>)
            recent == RecentDistinct(buf.finalized, buf.max_size, {})
        IN  /\ Len(buf.final_messages) <= buf.max_size
            /\ \/ Keys(buf.final_messages) = LastN(ids, buf.max_size)
               \/ Keys(buf.final_messages) = SelectSeq(ids, LAMBDA m : m \in recent)

\* C11 (amended): final_messages never exceeds max_size, its ids are distinct,
\* and it holds the ids in order of the insertion of the entry held now:
\* finalizing an id that is not held (new, or evicted earlier) inserts it at
\* the end and evicts the oldest-inserted entries over capacity; finalizing a
\* held id keeps its position.
C11_CapacityFIFO ==
    buf.max_size > 0 =>
        /\ Len(buf.final_messages) <= buf.max_size
        /\ Cardinality(Elements(Keys(buf.final_messages))) = Len(buf.final_messages)
        /\ Keys(buf.final_messages) = InsertionWindow(buf.finalized, buf.max_size, << >>)

C11_Witness ==
    /\ buf.max_size = 2
    /\ Len(buf.finalized) = 3
    /\ Cardinality(Elements(buf.finalized)) = 3
    /\ Keys(buf.final_messages) = SubSeq(buf.finalized, 2, 3)

\* The data of the entries of final_messages after position i.
DataAfter(final_messages, i) ==
    [j \in 1..(Len(final_messages) - i) |-> final_messages[i + j].data]

C13_ChunksJoinedInArrivalOrder ==
    [][\A message_id \in MessageIdSet \ {""}, event_data \in EventDataSet :
          finalize_message(message_id, event_data)
             /\ message_id \notin Elements(buf.finalized)
          => LET fm == buf'.final_messages
             IN  /\ fm # << >>
                 /\ fm[Len(fm)].id = message_id
                 /\ fm[Len(fm)].data.content =
                       Append(event_data.content, JoinChunks(buf.added[message_id]))]_vars

C13_Witness ==
    /\ buf.added["m1"] = <<"a", "b">>
    /\ buf.added["m2"] = <<"b">>
    /\ buf.finalized = <<"m1">>
    /\ buf.final_messages = <<[id |-> "m1", data |-> [content |-> <<"x", "ab">>]]>>

\* C29: finalize_message called again for an id that final_messages holds,
\* with the same event_data, leaves the ids and their order as they were and
\* the id without partial chunks, and makes the content of the entry one
\* element longer.
C29_RefinalizeKeepsPlaceGrowsContent ==
    [][\A message_id \in MessageIdSet \ {""} :
          FinalizeSameData(message_id)
          => LET i == CHOOSE i \in 1..Len(buf.final_messages) :
                         buf.final_messages[i].id = message_id
             IN  /\ Keys(buf'.final_messages) = Keys(buf.final_messages)
                 /\ message_id \notin DOMAIN buf'.partial_chunks
                 /\ Len(buf'.final_messages[i].data.content) =
                       Len(buf.final_messages[i].data.content) + 1
                 /\ \A j \in 1..Len(buf.final_messages) :
                       j # i => buf'.final_messages[j] = buf.final_messages[j]]_vars

C29_Witness ==
    /\ buf.finalized = <<"m1", "m2", "m1">>
    /\ Keys(buf.final_messages) = <<"m1", "m2">>
    /\ buf.final_messages[1].data.content = <<"", "">>

\* ------------------------------------------- add_message_to_thread claims
\* C14: add_message_to_thread called with an empty or whitespace-only message
\* raises the validation error at once, makes no remote create-message call
\* and leaves thread_message_tracking as it was.
C14_BlankMessageRejected ==
    [][\A thread_id \in MessageThreads, message \in Messages :
          AddMessageToThread(thread_id, message)
             /\ (\A i \in 1..Len(message) : message[i] \in Whitespace)
          => /\ mgr'.outcome = "ValueError"
             /\ mgr'.pc = "idle"
             /\ mgr'.messageCreates = mgr.messageCreates
             /\ mgr'.thread_message_tracking = mgr.thread_message_tracking]_vars

C14_Witness ==
    /\ mgr.outcome = "ValueError"
    /\ mgr.message = <<"\t", "\n">>
    /\ mgr.pc = "idle"
    /\ mgr.messageCreates = 1
    /\ DOMAIN mgr.thread_message_tracking = {1}

\* ------------------------------------------------ ToolCallExecutor claims
\* C15: execute raises tool-not-found and invokes nothing when the name is
\* not registered; otherwise it invokes the callable registered under the
\* name once, returns what it returns, and lets what it raises reach the
\* caller.
C15_ExecuteInvokesOnceAndPropagates ==
    [][\A tool_name \in ToolNames, arguments \in SUBSET {"x"},
          behaviour \in ToolBehaviours :
          Execute(tool_name, arguments, behaviour)
          => IF tool_name \notin DOMAIN tools.agent_actions
             THEN /\ tools'.outcome.raised
                  /\ tools'.outcome.exc = "ValueError"
                  /\ tools'.invocations = tools.invocations
             ELSE /\ tools'.invocations =
                        Append(tools.invocations,
                               [callable |-> Callable(tool_name), kwargs |-> arguments])
                  /\ tools'.outcome =
                        [raised |-> behaviour.raises,
                         exc |-> IF behaviour.raises THEN "ToolError" ELSE "none",
                         value |-> behaviour.value]]_vars

C15_Witness ==
    /\ tools.op = "execute"
    /\ DOMAIN tools.agent_actions = {"t1", "t2"}
    /\ tools.invocations = <<[callable |-> "f_t2", kwargs |-> {"x"}]>>
    /\ tools.outcome.raised
    /\ tools.outcome.exc = "ToolError"

\* C16: prepare_tool_output returns for every result an output of at most
\* the maximum number of tokens: the serialized JSON itself when that is
\* within the maximum, and otherwise its last max tokens.
C16_OutputWithinMaxTokens ==
    tools.op = "prepare" =>
        /\ ~tools.out.raised
        /\ Len(Encode(tools.out.output)) <= MaxTokens
        /\ Len(Encode(tools.raw_json)) <= MaxTokens => tools.out.output = tools.raw_json
        /\ Len(Encode(tools.raw_json)) > MaxTokens
              => tools.out.output = Decode(Tail_(Encode(tools.raw_json), MaxTokens))

\* C20: the outputs submitted for tool calls c1..cn are n entries, entry i
\* with the id of ci and the outcome of ci alone, in the order of the calls.
C20_OneOutputPerToolCall ==
    tools.op = "requires_action" =>
        /\ Len(tools.outputs) = Len(tools.tool_calls)
        /\ \A i \in 1..Len(tools.tool_calls) :
              /\ i <= Len(tools.outputs)
              /\ tools.outputs[i].tool_call_id = tools.tool_calls[i].id
              /\ tools.outputs[i] =
                    ToolCallStep(tools.agent_actions, tools.tool_calls[i]).outputs[1]

\* ------------------------------------------- get_or_create_thread claims
\* C17: when the validation of a cached record fails, the record is removed
\* and one remote create is invoked by the call; when that call returns, it
\* returns the new thread's id, not the invalidated one, and the key's record
\* is that thread with status initialized; it invokes no second create.
C17_InvalidRecordReplaced ==
    [][\A p \in Callers :
          /\ ValidateReturn(p, FALSE)
                => /\ callKey[p] \notin DOMAIN active_threads'
                   /\ createCalls' = createCalls + 1
                   /\ creates'[p] = 1
                   /\ pc'[p] = "creating"
                   /\ ret'[p] = 0
          /\ validated[p] = "fail" /\ pc[p] # "done" /\ pc'[p] = "done"
                => /\ ret'[p] = newThread[p]
                   /\ ret'[p] # found[p]
                   /\ active_threads'[callKey[p]] =
                         [thread_id |-> newThread[p], status |-> "initialized"]
                   /\ createCalls' = createCalls
                   /\ creates'[p] = 1]_vars

C17_Witness ==
    \E p \in Callers :
        /\ validated[p] = "fail"
        /\ pc[p] = "done"
        /\ found[p] # 0
        /\ ret[p] = newThread[p]
        /\ active_threads[callKey[p]].thread_id = ret[p]

\* C18: when the remote create fails, the call raises, has invoked the create
\* once, invokes it no more and stores nothing; a later lookup that finds no
\* record for its key invokes the create again.
C18_FailedCreateRaisesOnce ==
    [][\A p \in Callers :
          /\ CreateReturn(p, FALSE)
                => /\ pc'[p] = "raised"
                   /\ creates[p] = 1 /\ creates'[p] = 1
                   /\ createCalls' = createCalls
                   /\ active_threads' = active_threads
                   /\ ret'[p] = 0
          /\ LockedLookup(p) /\ callKey[p] \notin DOMAIN active_threads
                => /\ pc'[p] = "creating"
                   /\ createCalls' = createCalls + 1
                   /\ creates'[p] = 1]_vars

C18_Witness ==
    /\ calls = [p \in Callers |-> IF p = 1 THEN 2 ELSE 0]
    /\ createCalls = 2
    /\ active_threads = << >>
    /\ pc[1] = "creating"
    /\ validated[1] = "none"

\* ------------------------------------------------------ CLI loop claims
\* C19: when add_message_to_thread rejects or fails, so that no run is
\* started, the chat loop gets back to reading the next user input.
C19_FailedInputReturnsToPrompt ==
    (cli.pc = "awaiting" /\ cli.run = 0) ~> (cli.pc = "input")

\* ------------------------------------------------- EventHandler claims
\* C22: each of _handle_run_completed, _handle_message_completed and
\* _handle_done_event, invoked on an event, publishes one event, puts one
\* event on the handler's queue, and the event carries current_user_id.
C22_CompletionHandlersPublishAndEnqueue ==
    [][\A t \in 1..Len(tasks), e \in DispatchEvents :
          RunStreamEvent(t, e)
             /\ invoked' \in {<<"_handle_run_completed">>,
                              <<"_handle_message_completed">>,
                              <<"_handle_done_event">>}
          => /\ publishes' = publishes + 1
             /\ Len(queues'[event_queue]) = Len(queues[event_queue]) + 1
             /\ queues'[event_queue][Len(queues'[event_queue])].user_id
                   = current_user_id]_vars

\* C26: when opening or iterating the stream of a run raises, start_run ends
\* there: nothing is enqueued, published or dispatched by the failure, what
\* was enqueued and published before stays, and the run takes no event more.
C26_StreamFailureEndsRunSilently ==
    [][\A t \in 1..Len(tasks) :
          /\ tasks[t].kind = "run" /\ (StreamRaises(t) \/ RunOpens(t, FALSE))
                => /\ tasks'[t] = [tasks[t] EXCEPT !.st = "crashed"]
                   /\ Len(tasks') = Len(tasks)
                   /\ queues' = queues
                   /\ event_queue' = event_queue
                   /\ publishes' = publishes
                   /\ stdout' = stdout
                   /\ sse' = sse
                   /\ invoked' = invoked
          /\ tasks[t].st = "crashed" => tasks'[t] = tasks[t]]_vars

C26_Witness ==
    /\ tasks # << >>
    /\ tasks[1].kind = "run"
    /\ tasks[1].st = "crashed"
    /\ tasks[1].n = 2
    /\ Len(queues[event_queue]) = 1
    /\ stdout = "a"

\* C23: every event a stream of a run yields is handed to the dispatch
\* table at the step it is yielded, once, when it passes the thread check
\* (and is dropped otherwise), so in the order of the stream; a text delta is
\* published at that step, after everything published before - also for the
\* nested stream of a requires-action cycle running beside the outer stream.
C23_DispatchedAndPublishedInStreamOrder ==
    [][\A t \in 1..Len(tasks), e \in CLIWireEvents :
          LET valid == _validate_thread(GetAttrTid(e.thread_id, tasks[t].thread_id),
                                        tasks[t].thread_id, Assistant)
              delta == e.event = "thread.message.delta" /\ e.chunk # ""
          IN  /\ RunStreamEvent(t, e) /\ ~valid
                    => invoked' = << >> /\ stdout' = stdout /\ publishes' = publishes
              /\ (RunStreamEvent(t, e) /\ valid) \/ NestedStreamEvent(t, e)
                    => /\ invoked' = dispatch(e.event)
                       /\ tasks'[t].n = tasks[t].n + 1
                       /\ delta => /\ stdout' = stdout \o e.chunk
                                   /\ tasks'[t].pubd = Append(tasks[t].pubd, e.chunk)
                                   /\ publishes' = publishes + 1
                       /\ ~delta => stdout' = stdout /\ tasks'[t].pubd = tasks[t].pubd]_vars

C23_Witness ==
    /\ Len(tasks) = 2
    /\ tasks[1].kind = "run" /\ tasks[1].st = "streaming" /\ tasks[1].n = 2
    /\ tasks[2].kind = "action" /\ tasks[2].n = 1
    /\ tasks[2].pubd = <<"a">>
    /\ tasks[1].pubd = <<"b">>
    /\ stdout = "ab"

\* The trace of one requires-action cycle: every tool call of the payload, in
\* payload order, tracked Pending and then Completed or Failed, and after all
\* of them the single call of submit_tool_outputs_stream.
C21_CycleTrace(tr) ==
    LET k == Len(RequiredToolCalls)
    IN  /\ Len(tr) = 2 * k + 1
        /\ \A i \in 1..k :
              /\ tr[2 * i - 1] = [id |-> RequiredToolCalls[i].id, status |-> "Pending"]
              /\ tr[2 * i].id = RequiredToolCalls[i].id
              /\ tr[2 * i].status \in {"Completed", "Failed"}
        /\ \A i \in 1..Len(tr) : tr[i].id = SubmitCall(<< >>).id <=> i = 2 * k + 1

\* C21: a requires-action event that passes the thread checks starts one
\* task; when the event carries tool calls the task executes every one of
\* them (Pending, then Completed or Failed) and then calls
\* submit_tool_outputs_stream once, never again while the nested stream is
\* read; every event of the nested stream is handed to the dispatch table at
\* the step it is yielded.
C21_SubmitOnceAfterAllToolCalls ==
    /\ [](\A t \in 1..Len(tasks) :
            tasks[t].kind = "action" =>
                IF tasks[t].required /\ tasks[t].st # "scheduled"
                THEN C21_CycleTrace(tasks[t].trace)
                ELSE tasks[t].trace = << >>)
    /\ [][\A t \in 1..Len(tasks), e \in WireEvents :
            LET outer == _validate_thread(GetAttrTid(e.thread_id, tasks[t].thread_id),
                                          tasks[t].thread_id, Assistant)
                inner == _validate_thread(GetAttrTid(e.data_thread_id, NoneTid),
                                          tasks[t].thread_id, Assistant)
                asks == e.event = "thread.run.requires_action" /\ inner
            IN  /\ NestedStreamEvent(t, e)
                      => /\ invoked' = dispatch(e.event)
                         /\ tasks'[t].n = tasks[t].n + 1
                         /\ tasks'[t].trace = tasks[t].trace
                /\ (RunStreamEvent(t, e) /\ outer) \/ NestedStreamEvent(t, e)
                      => IF asks
                         THEN /\ Len(tasks') = Len(tasks) + 1
                              /\ tasks'[Len(tasks')] =
                                     ActionTask(tasks[t].thread_id, tasks[t].ctx,
                                                tasks[t].cycle, e.required)
                         ELSE Len(tasks') = Len(tasks)
                /\ RunStreamEvent(t, e) /\ ~outer => Len(tasks') = Len(tasks)]_vars

C21_Witness ==
    /\ Len(tasks) = 2
    /\ tasks[2].kind = "action"
    /\ tasks[2].required
    /\ tasks[2].st = "streaming"
    /\ tasks[2].n = 1
    /\ tasks[2].trace = <<[id |-> "c1", status |-> "Pending"],
                          [id |-> "c1", status |-> "Completed"],
                          [id |-> "c2", status |-> "Pending"],
                          [id |-> "c2", status |-> "Failed"],
                          [id |-> "submit_tool_outputs_stream", status |-> "2"]>>
    /\ invoked = <<"_handle_run_completed">>

\* C27: when the last event dispatched is the done event that ends a stream
\* which asked for tool calls before, await_run_completion returns only when
\* every task started for a requires-action event with tool calls has
\* submitted the outputs and its nested stream has yielded, or it has ended.
C27_AwaitOutlastsRequiresAction ==
    [][cli.pc = "awaiting" /\ cli'.pc = "input" /\ invoked = <<"_handle_done_event">>
          => \A t \in 1..Len(tasks) :
                tasks[t].kind = "action" /\ tasks[t].required
                    => /\ tasks[t].st # "scheduled"
                       /\ ~(tasks[t].st = "streaming" /\ tasks[t].n = 0)]_vars

\* C24: the event on which await_run_completion returns was produced for the
\* run awaited: a completion event that a superseded run still produces after
\* process_user_message replaced the queue never reaches the new queue, so it
\* never ends the new run's wait.
C24_SupersededRunIsOrphaned ==
    [][web.pc = "awaiting" /\ web'.pc = "idle"
          => Head(queues[event_queue]).cycle = web.cycle]_vars

\* The user_id passed to start_run of the run of a cycle.
C25_RunUser(cycle) ==
    {tasks[t].user_id : t \in {i \in 1..Len(tasks) : tasks[i].kind = "run"
                                                     /\ tasks[i].cycle = cycle}}

\* C25: every event a run has enqueued or published carries the user_id
\* that was passed to start_run of that run, and sits in that user's SSE
\* queue, whichever requests the controller has served meanwhile.
C25_EventsCarryTheRunsUser ==
    /\ \A i \in 1..Len(queues[event_queue]) :
          LET ev == queues[event_queue][i]
          IN  ev.user_id \in C25_RunUser(ev.cycle)
    /\ \A u \in DOMAIN sse : \A i \in 1..Len(sse[u]) :
          /\ sse[u][i].user_id = u
          /\ u \in C25_RunUser(sse[u][i].cycle)

\* A get_events call on the user id has listed the deque and not cleared it.
C28_Draining(u) ==
    \E th \in SSEThreads : ssem.thr[th].pc = "clear" /\ ssem.thr[th].user_id = u

\* C28: for every user id, the events listed by the get_events calls on it,
\* in the order listed, followed by the events still in its deque, are the
\* events put for it in the order they were appended: none is lost, none is
\* returned twice, none is returned for another user id.
C28_EachEventDeliveredOnceInOrder ==
    \A u \in SSEUsers :
        /\ ssem.appended[u] =
              ssem.delivered[u] \o (IF C28_Draining(u) THEN << >> ELSE ssem.queues[u])
        /\ \A i \in 1..Len(ssem.delivered[u]) : ssem.delivered[u][i].user_id = u
        /\ \A th \in SSEThreads :
              ssem.thr[th].user_id = u =>
                 \A i \in 1..Len(ssem.thr[th].items) : ssem.thr[th].items[i].user_id = u

C28_Witness ==
    /\ ssem.delivered["u1"] = <<[user_id |-> "u1", n |-> 1]>>
    /\ ssem.queues["u1"] = <<[user_id |-> "u1", n |-> 4]>>
    /\ ssem.queues["u2"] = <<[user_id |-> "u2", n |-> 2]>>
    /\ \A th \in SSEThreads : ssem.thr[th].pc = "idle"

\* C30: wherever user_id is injected - the completion handlers, the web
\* channel, the bus callback of the web controller - the event object that
\* was received and the data it refers to are afterwards what they were
\* before.
C30_InjectionWorksOnACopy ==
    inj.op # "none" => inj.after = inj.before

====
